---- MODULE Spec2Model ----
(***************************************************************************)
(* Model of the credit-scorecard pipeline of the portfolio repository      *)
(* (src/pages/bankingprojects): WoE/IV binning, correlation and VIF        *)
(* filtering, near-zero-variance filtering, decile creation, the data      *)
(* pipeline step functions and the step-by-step Streamlit pages.           *)
(*                                                                         *)
(* Numbers are exact: a proportion or a ratio is a pair <<num, den>> of    *)
(* integers, a correlation is compared with a threshold through the        *)
(* squared integer covariance, and a natural logarithm is represented by   *)
(* its argument and its sign.  A nullable cell is a sequence of at most    *)
(* one value: <<>> is NaN / None, <<v>> is the value v.                    *)
(***************************************************************************)
EXTENDS Integers, Sequences, FiniteSets, TLC

VARIABLES
    pc,             \* position of the call under study: "start", then "done" or "raised"
    df,             \* the input dataframe of the call
    args,           \* the other arguments of the call
    result,         \* what the call returned
    session_state,  \* st.session_state of one browser session
    env             \* interpreter-wide state: wall clock, numpy global RNG, files

vars == <<pc, df, args, result, session_state, env>>

NaN == <<>>
None == <<>>
Val(v) == <<v>>

(***************************************************************************)
(* Generic helpers                                                         *)
(***************************************************************************)
Range(s) == {s[i] : i \in 1..Len(s)}

RECURSIVE SumSeq(_)
SumSeq(s) == IF s = <<>> THEN 0 ELSE s[1] + SumSeq(Tail(s))

RECURSIVE SetToSortedSeq(_)
SetToSortedSeq(S) ==
    IF S = {} THEN <<>>
    ELSE LET m == CHOOSE x \in S : \A y \in S : x <= y
         IN <<m>> \o SetToSortedSeq(S \ {m})

Min2(a, b) == IF a <= b THEN a ELSE b

Sign(n) == IF n > 0 THEN 1 ELSE IF n < 0 THEN -1 ELSE 0

\* the sequence s with every element computed
Materialize(s) == SubSeq(s, 1, Len(s))

\* the non-decreasing index sequences of length <= n over lo..hi: one
\* representative per multiset of rows
RECURSIVE SortedIdx(_, _, _)
SortedIdx(n, lo, hi) ==
    IF n = 0 THEN {<<>>}
    ELSE {<<>>} \cup UNION {{<<i>> \o s : s \in SortedIdx(n - 1, i, hi)} : i \in lo..hi}

(***************************************************************************)
(* Bounds of the enumerated inputs                                         *)
(***************************************************************************)
MaxRows == 5        \* rows of a dataframe handed to a binning function
MaxVal == 2         \* a numeric cell holds 0..MaxVal, or NaN

(***************************************************************************)
(* WoE / IV  (iv_woe_functions.py)                                         *)
(***************************************************************************)
DefaultNBins == 10
ZeroReplacement == <<1, 10000>>     \* 0.0001

\* a row of df[[var_name, target_col]]: x is the variable, y the binary target
RowOfIdx(k) == [x |-> IF k \div 2 = 0 THEN NaN ELSE Val((k \div 2) - 1), y |-> k % 2]

RowSeqs(n, maxval) ==
    {[i \in 1..Len(s) |-> RowOfIdx(s[i])] : s \in SortedIdx(n, 0, 2 * (maxval + 2) - 1)}

\* df.dropna(subset=[var_name])
DropNa(rows) == SelectSeq(rows, LAMBDA r : r.x # NaN)

\* k-th smallest (0-based) of a non-empty sequence of integers
Kth(xs, k) ==
    CHOOSE v \in Range(xs) :
        /\ Cardinality({i \in 1..Len(xs) : xs[i] < v}) <= k
        /\ k < Cardinality({i \in 1..Len(xs) : xs[i] <= v})

\* Series.quantile(i / q), linear interpolation, times q
QuantileTimes(xs, i, q) ==
    LET n == Len(xs)
        h == (n - 1) * i
        lo == h \div q
        fr == h % q
        a == Kth(xs, lo)
        b == Kth(xs, Min2(lo + 1, n - 1))
    IN q * a + fr * (b - a)

\* the bin edges pd.qcut hands to _bins_to_cuts, times q; duplicates='drop'
\* replaces them by the unique edges unless there are exactly two edges
QcutBins(xs, q) ==
    LET edges == [i \in 1..(q + 1) |-> QuantileTimes(xs, i - 1, q)]
        uniq == Range(edges)
    IN IF Cardinality(uniq) < q + 1 /\ q + 1 # 2 THEN SetToSortedSeq(uniq) ELSE edges

\* _bins_to_cuts(right=True, include_lowest=True, labels=False): the bin of
\* one value, NaN when it falls outside the edges
CutRightAlt(bins, v) ==
    LET ids == Cardinality({j \in 1..Len(bins) : bins[j] <= v})
    IN IF ids = Len(bins) \/ ids = 0 THEN NaN ELSE Val(ids - 1)

CutRight(bins, v) ==
    LET ids0 == Cardinality({j \in 1..Len(bins) : bins[j] < v})
        ids == IF v = bins[1] THEN 1 ELSE ids0
    IN IF ids = Len(bins) \/ ids = 0 THEN NaN ELSE Val(ids - 1)

\* pd.qcut(series, q, labels=False, duplicates='drop') on a sequence of
\* non-null integers (the ValueError branch of lines 90-97 is never taken:
\* with duplicates='drop' qcut does not raise on finite numbers)
qcut(xs, q) ==
    IF Len(xs) = 0 THEN <<>>
    ELSE LET bins == QcutBins(xs, q)
         IN [i \in 1..Len(xs) |-> CutRight(bins, q * xs[i])]

\* pd.cut(series, bins=[-inf] + bin_edges + [inf], labels=False, right=False)
cut_manual(xs, bin_edges) ==
    [i \in 1..Len(xs) |-> Cardinality({j \in 1..Len(bin_edges) : bin_edges[j] <= xs[i]})]

\* Series.fillna(-1).astype(int)
FillNaMinus1(col) == [i \in 1..Len(col) |-> IF col[i] = NaN THEN -1 ELSE col[i][1]]

\* groupby('bin').agg({target: ['sum', 'count']}) on an integer bin column: one
\* row per bin present, in bin order
GroupStats(bins, ys) ==
    LET keys == SetToSortedSeq({bins[i] : i \in 1..Len(bins)})
        rowsOf(b) == {i \in 1..Len(bins) : bins[i] = b}
        bad(b) == Cardinality({i \in rowsOf(b) : ys[i] = 1})
    IN [k \in 1..Len(keys) |->
           [bin |-> keys[k], bad |-> bad(keys[k]), total |-> Cardinality(rowsOf(keys[k])),
            good |-> Cardinality(rowsOf(keys[k])) - bad(keys[k])]]

\* stats['pct'] = count / total, then .replace(0, 0.0001)
PctAlt(count, total) == <<count, total>>

Pct(count, total) == IF count = 0 THEN ZeroReplacement ELSE <<count, total>>

\* np.log(pct_good / pct_bad): the argument <<num, den>> of the logarithm
LogArg(pg, pb) == <<pg[1] * pb[2], pg[2] * pb[1]>>

\* the sign of np.log of a positive ratio
LogSign(r) == Sign(r[1] - r[2])

\* the sign of pct_good - pct_bad
DiffSign(pg, pb) == Sign(pg[1] * pb[2] - pb[1] * pg[2])

\* the sign of (pct_good - pct_bad) * woe
IvComponentSignAlt(pg, pb) == DiffSign(pg, pb) * LogSign(LogArg(pb, pg))

IvComponentSign(pg, pb) == DiffSign(pg, pb) * LogSign(LogArg(pg, pb))

\* the sign of stats['iv_component'].sum(): "mixed" when the components
\* have both signs
SumSign(signs) ==
    IF \A i \in 1..Len(signs) : signs[i] = 0 THEN "zero"
    ELSE IF \A i \in 1..Len(signs) : signs[i] >= 0 THEN "positive"
    ELSE IF \A i \in 1..Len(signs) : signs[i] <= 0 THEN "negative"
    ELSE "mixed"

\* lines 116-143 and 249-276: from the per-bin counts to (IV, stats)
WoeIvFromStats(stats) ==
    LET tot_good == SumSeq([k \in 1..Len(stats) |-> stats[k].good])
        tot_bad == SumSeq([k \in 1..Len(stats) |-> stats[k].bad])
        full == [k \in 1..Len(stats) |->
                    LET pg == Pct(stats[k].good, tot_good)
                        pb == Pct(stats[k].bad, tot_bad)
                    IN [bin |-> stats[k].bin, bad |-> stats[k].bad,
                        total |-> stats[k].total, good |-> stats[k].good,
                        pct_good |-> pg, pct_bad |-> pb,
                        woe |-> LogArg(pg, pb),
                        iv_component |-> IvComponentSign(pg, pb)]]
    IN IF tot_good = 0 \/ tot_bad = 0
       THEN [iv |-> "zero", stats |-> stats, has_pct |-> FALSE]
       ELSE [iv |-> SumSign([k \in 1..Len(full) |-> full[k].iv_component]),
             stats |-> full, has_pct |-> TRUE]

\* return 0.0, pd.DataFrame()
EmptyWoe == [iv |-> "zero", stats |-> <<>>, has_pct |-> FALSE]

\* iv is the sign of the IV returned ("zero" for 0.0)
step4_calculate_woe_iv_for_variable(d, n_bins) ==
    IF ~d.has_var \/ ~d.has_target THEN EmptyWoe
    ELSE LET df_work == DropNa(d.rows)
             xs == [i \in 1..Len(df_work) |-> df_work[i].x[1]]
             ys == [i \in 1..Len(df_work) |-> df_work[i].y]
             grouped == GroupStats(FillNaMinus1(qcut(xs, n_bins)), ys)
             stats == SelectSeq(grouped, LAMBDA g : g.bin >= 0)
         IN IF Len(df_work) = 0 THEN EmptyWoe
            ELSE IF Len(stats) = 0 THEN EmptyWoe
            ELSE WoeIvFromStats(stats)

calculate_manual_binning_woe_iv(d, bin_edges) ==
    IF ~d.has_var \/ ~d.has_target THEN EmptyWoe
    ELSE LET df_work == DropNa(d.rows)
             xs == [i \in 1..Len(df_work) |-> df_work[i].x[1]]
             ys == [i \in 1..Len(df_work) |-> df_work[i].y]
             b0 == cut_manual(xs, bin_edges)
             stats == GroupStats([i \in 1..Len(b0) |-> b0[i] + 1], ys)
         IN IF Len(df_work) = 0 THEN EmptyWoe
            ELSE IF Len(stats) = 0 THEN EmptyWoe
            ELSE WoeIvFromStats(stats)

Unused == <<>>

\* inputs of the two WoE functions
WoeFrames ==
    {[has_var |-> hv, has_target |-> ht, rows |-> r] :
        hv \in BOOLEAN, ht \in BOOLEAN, r \in RowSeqs(MaxRows, MaxVal)}

WoeArgs ==
    {[fn |-> "qcut", n_bins |-> q] : q \in {2, 3, DefaultNBins}}
    \cup {[fn |-> "manual", bin_edges |-> SetToSortedSeq(E)] : E \in SUBSET (1..MaxVal)}

InitWoe ==
    /\ pc = "start"
    /\ df \in WoeFrames
    /\ args \in WoeArgs
    /\ result = None
    /\ session_state = Unused
    /\ env = Unused

CallQcutWoe ==
    /\ pc = "start"
    /\ args.fn = "qcut"
    /\ result' = step4_calculate_woe_iv_for_variable(df, args.n_bins)
    /\ pc' = "done"
    /\ UNCHANGED <<df, args, session_state, env>>

CallManualWoe ==
    /\ pc = "start"
    /\ args.fn = "manual"
    /\ result' = calculate_manual_binning_woe_iv(df, args.bin_edges)
    /\ pc' = "done"
    /\ UNCHANGED <<df, args, session_state, env>>

NextWoe == CallQcutWoe \/ CallManualWoe

SpecWoe == InitWoe /\ [][NextWoe]_vars

(***************************************************************************)
(* Claims about WoE / IV, checked under SpecWoe                            *)
(***************************************************************************)
\* the sum of a pct column times 10000 * total (each entry is count/total or
\* 1/10000, so the division is exact)
PctSumScaled(col, total) ==
    SumSeq([k \in 1..Len(col) |-> col[k][1] * ((10000 * total) \div col[k][2])])

TotGood(stats) == SumSeq([k \in 1..Len(stats) |-> stats[k].good])
TotBad(stats) == SumSeq([k \in 1..Len(stats) |-> stats[k].bad])
PctGoodCol(stats) == [k \in 1..Len(stats) |-> stats[k].pct_good]
PctBadCol(stats) == [k \in 1..Len(stats) |-> stats[k].pct_bad]
ZeroGoodBins(stats) == Cardinality({k \in 1..Len(stats) : stats[k].good = 0})
ZeroBadBins(stats) == Cardinality({k \in 1..Len(stats) : stats[k].bad = 0})

\* C1 as stated: when the binned rows hold a good and a bad row, pct_good and
\* pct_bad of the returned WoE table each sum to exactly 1.
C1_PctSumsToOne ==
    (pc = "done" /\ result.has_pct) =>
        /\ PctSumScaled(PctGoodCol(result.stats), TotGood(result.stats))
              = 10000 * TotGood(result.stats)
        /\ PctSumScaled(PctBadCol(result.stats), TotBad(result.stats))
              = 10000 * TotBad(result.stats)

\* C1 amended: pct_good sums to 1 + 0.0001 * (number of bins without a good
\* row) and pct_bad to 1 + 0.0001 * (number of bins without a bad row); they
\* sum to 1 exactly when no bin had its zero proportion replaced.
C1_PctSumsWithReplacement ==
    (pc = "done" /\ result.has_pct) =>
        /\ PctSumScaled(PctGoodCol(result.stats), TotGood(result.stats))
              = (10000 + ZeroGoodBins(result.stats)) * TotGood(result.stats)
        /\ PctSumScaled(PctBadCol(result.stats), TotBad(result.stats))
              = (10000 + ZeroBadBins(result.stats)) * TotBad(result.stats)

\* a WoE table with several bins, one of them without a good row and another
\* with goods and bads
C1_Witness ==
    /\ pc = "done"
    /\ result.has_pct
    /\ ZeroGoodBins(result.stats) > 0
    /\ \E k \in 1..Len(result.stats) : result.stats[k].good > 0 /\ result.stats[k].bad > 0

\* the inputs on which the functions return before any proportion is computed
NoWoeRows(d) ==
    \/ ~d.has_var
    \/ ~d.has_target
    \/ DropNa(d.rows) = <<>>
    \/ \A i \in 1..Len(d.rows) : d.rows[i].x # NaN => d.rows[i].y = 1
    \/ \A i \in 1..Len(d.rows) : d.rows[i].x # NaN => d.rows[i].y = 0

\* C2: the IV returned by both functions is never negative: every bin's
\* iv_component is >= 0, also where a zero proportion was replaced by 0.0001,
\* and a missing column, no rows, no goods or no bads return 0.0.
C2_IvNonNegative ==
    pc = "done" =>
        /\ result.iv \in {"zero", "positive"}
        /\ result.has_pct =>
              \A k \in 1..Len(result.stats) : result.stats[k].iv_component >= 0
        /\ NoWoeRows(df) => result.iv = "zero"

\* a positive IV with a bin whose zero proportion of bads was replaced
C2_Witness ==
    /\ pc = "done"
    /\ result.has_pct
    /\ result.iv = "positive"
    /\ \E k \in 1..Len(result.stats) :
          result.stats[k].bad = 0 /\ result.stats[k].pct_bad = ZeroReplacement
                                  /\ result.stats[k].iv_component > 0

(***************************************************************************)
(* Correlation filter  (collinear_functions.py)                            *)
(***************************************************************************)
MaxCols == 3        \* numeric columns of a dataframe handed to the filters

\* thresholds in hundredths
corr_threshold_find == 90
corr_threshold_high == 98
corr_threshold_medium == 95
iv_threshold == 2

\* the data a numeric column may hold (4 rows).  Pearson correlations:
\*   (0,1,2,3)~(0,1,2,4) 0.983, (0,1,2,3)~(0,1,2,5) 0.956,
\*   (0,1,2,4)~(0,1,2,5) 0.994, (0,1,2,3)~(0,1,3,3) 0.947,
\*   (3,2,1,0) is the negation of (0,1,2,3), (1,1,1,1) is constant.
ColumnData ==
    {<<0, 1, 2, 3>>, <<0, 1, 2, 4>>, <<0, 1, 2, 5>>, <<0, 1, 3, 3>>,
     <<3, 2, 1, 0>>, <<1, 1, 1, 1>>}

ColName(i) == <<"c1", "c2", "c3", "c4", "c5", "c6">>[i]

\* n * sum(a*b) - sum(a) * sum(b): n^2 times the covariance
Scatter(a, b) ==
    Len(a) * SumSeq([i \in 1..Len(a) |-> a[i] * b[i]]) - SumSeq(a) * SumSeq(b)

\* DataFrame.corr() entry: NaN for a constant column, else <<s, v>> standing
\* for sign(s) * sqrt(s^2 / v)
Pearson(a, b) ==
    IF Scatter(a, a) = 0 \/ Scatter(b, b) = 0 THEN NaN
    ELSE <<Scatter(a, b), Scatter(a, a) * Scatter(b, b)>>

\* corr_value >= t / 100 and corr_value > t / 100 for a threshold t > 0
\* (a comparison with NaN is False)
CorrGE(c, t) == c # NaN /\ c[1] > 0 /\ 10000 * c[1] * c[1] >= t * t * c[2]
CorrGT(c, t) == c # NaN /\ c[1] > 0 /\ 10000 * c[1] * c[1] > t * t * c[2]

\* the correlation matrix of the numeric columns, in column order
calculate_correlation_matrix(d) ==
    [columns |-> d.columns,
     corr |-> [i \in 1..Len(d.columns) |-> [j \in 1..Len(d.columns) |->
                  Pearson(d.data[d.columns[i]], d.data[d.columns[j]])]]]

\* the pairs (i, j), i < j, in the order of the two nested loops
RECURSIVE PairsFrom(_, _, _)
PairsFrom(i, j, n) ==
    IF i >= n THEN <<>>
    ELSE IF j > n THEN PairsFrom(i + 1, i + 2, n)
    ELSE <<<<i, j>>>> \o PairsFrom(i, j + 1, n)

\* (a variant that lists each pair with its two columns exchanged)
find_high_correlation_pairsAlt(m, threshold) ==
    LET all == PairsFrom(1, 2, Len(m.columns))
        hit == SelectSeq(all, LAMBDA q : CorrGE(m.corr[q[1]][q[2]], threshold))
    IN [k \in 1..Len(hit) |->
           [var1 |-> m.columns[hit[k][2]], var2 |-> m.columns[hit[k][1]],
            corr_value |-> m.corr[hit[k][1]][hit[k][2]]]]

find_high_correlation_pairs(m, threshold) ==
    LET all == PairsFrom(1, 2, Len(m.columns))
        hit == SelectSeq(all, LAMBDA q : CorrGE(m.corr[q[1]][q[2]], threshold))
    IN [k \in 1..Len(hit) |->
           [var1 |-> m.columns[hit[k][1]], var2 |-> m.columns[hit[k][2]],
            corr_value |-> m.corr[hit[k][1]][hit[k][2]]]]

\* iv_dict.get(var2, 0); iv_summary is a function from the variables it lists
\* to their IV in hundredths (None: the empty function)
IvGet(iv_summary, v) == IF v \in DOMAIN iv_summary THEN iv_summary[v] ELSE 0

\* (a variant that appends var2 without looking whether it is listed)
DropStepAlt(vars_to_drop, row, iv_summary) ==
    IF CorrGT(row.corr_value, corr_threshold_high)
    THEN Append(vars_to_drop, row.var2)
    ELSE IF CorrGT(row.corr_value, corr_threshold_medium)
    THEN IF IvGet(iv_summary, row.var2) < iv_threshold
         THEN Append(vars_to_drop, row.var2) ELSE vars_to_drop
    ELSE vars_to_drop

\* (a variant that tests the medium threshold first)
DropStepAlt2(vars_to_drop, row, iv_summary) ==
    IF CorrGT(row.corr_value, corr_threshold_medium)
    THEN IF IvGet(iv_summary, row.var2) < iv_threshold /\ row.var2 \notin Range(vars_to_drop)
         THEN Append(vars_to_drop, row.var2) ELSE vars_to_drop
    ELSE IF CorrGT(row.corr_value, corr_threshold_high) /\ row.var2 \notin Range(vars_to_drop)
    THEN Append(vars_to_drop, row.var2)
    ELSE vars_to_drop

\* one iteration of the loop of lines 102-115
DropStep(vars_to_drop, row, iv_summary) ==
    IF CorrGT(row.corr_value, corr_threshold_high)
    THEN IF row.var2 \notin Range(vars_to_drop)
         THEN Append(vars_to_drop, row.var2) ELSE vars_to_drop
    ELSE IF CorrGT(row.corr_value, corr_threshold_medium)
    THEN IF IvGet(iv_summary, row.var2) < iv_threshold
         THEN IF row.var2 \notin Range(vars_to_drop)
              THEN Append(vars_to_drop, row.var2) ELSE vars_to_drop
         ELSE vars_to_drop
    ELSE vars_to_drop

RECURSIVE DropLoop(_, _, _)
DropLoop(vars_to_drop, pairs, iv_summary) ==
    IF pairs = <<>> THEN vars_to_drop
    ELSE DropLoop(DropStep(vars_to_drop, pairs[1], iv_summary), Tail(pairs), iv_summary)

identify_vars_to_drop_correlation(high_corr_pairs, iv_summary) ==
    DropLoop(<<>>, high_corr_pairs, iv_summary)

\* df.drop(columns=vars_to_drop, errors='ignore')
DropColumns(d, vars_to_drop) ==
    LET kept == SelectSeq(d.columns, LAMBDA c : c \notin Range(vars_to_drop))
    IN [columns |-> kept, data |-> [c \in Range(kept) |-> d.data[c]]]

apply_correlation_filter(d, vars_to_drop) == DropColumns(d, vars_to_drop)

\* lines 329-335 of run_full_collinearity_analysis
CorrelationFilter(d, iv_summary) ==
    LET corr_matrix == calculate_correlation_matrix(d)
        high_corr_pairs == find_high_correlation_pairs(corr_matrix, corr_threshold_find)
        vars_to_drop_corr == identify_vars_to_drop_correlation(high_corr_pairs, iv_summary)
    IN [corr_matrix |-> corr_matrix, high_corr_pairs |-> high_corr_pairs,
        vars_dropped |-> vars_to_drop_corr,
        filtered_df |-> apply_correlation_filter(d, vars_to_drop_corr)]

\* dataframes of 1..n numeric columns named c1, c2, ...
NumericFrames(n) ==
    UNION {{[columns |-> [i \in 1..k |-> ColName(i)],
             data |-> [c \in {ColName(i) : i \in 1..k} |->
                          f[CHOOSE i \in 1..k : ColName(i) = c]]] :
               f \in [1..k -> ColumnData]} : k \in 1..n}

\* IV summaries over the columns of d: a column is absent, or has IV 0.01 or 0.05
IvSummaries(d) ==
    UNION {[S -> {1, 5}] : S \in SUBSET Range(d.columns)}

InitCorr ==
    /\ pc = "start"
    /\ df \in NumericFrames(MaxCols)
    /\ args \in {[iv_summary |-> s] : s \in IvSummaries(df)}
    /\ result = None
    /\ session_state = Unused
    /\ env = Unused

CallCorrelationFilter ==
    /\ pc = "start"
    /\ result' = CorrelationFilter(df, args.iv_summary)
    /\ pc' = "done"
    /\ UNCHANGED <<df, args, session_state, env>>

NextCorr == CallCorrelationFilter

SpecCorr == InitCorr /\ [][NextCorr]_vars

\* C3 as stated: of any two numeric columns whose correlation is > 0.98 the
\* correlation filter removes exactly one and keeps the other.
C3_ExactlyOneRemoved ==
    pc = "done" =>
        \A i, j \in 1..Len(df.columns) :
            (i < j /\ CorrGT(Pearson(df.data[df.columns[i]], df.data[df.columns[j]]), 98)) =>
                (df.columns[i] \in Range(result.filtered_df.columns))
                    # (df.columns[j] \in Range(result.filtered_df.columns))

\* column j is the later column of a pair the filter acts on: correlation
\* > 0.98, or > 0.95 with an IV of column j below 0.02
LaterOfDroppedPair(d, iv_summary, j) ==
    \E h \in 1..(j - 1) :
        LET c == Pearson(d.data[d.columns[h]], d.data[d.columns[j]])
        IN CorrGT(c, 98) \/ (CorrGT(c, 95) /\ IvGet(iv_summary, d.columns[j]) < 2)

\* C3 amended: of two numeric columns whose correlation is > 0.98 the filter
\* removes the later one in column order; the earlier one is kept unless it
\* is itself the later column of a pair whose correlation is > 0.98, or is
\* > 0.95 with IV < 0.02 (so with no such further pair exactly one of the two
\* is removed).
C3_LaterRemoved ==
    pc = "done" =>
        \A i, j \in 1..Len(df.columns) :
            (i < j /\ CorrGT(Pearson(df.data[df.columns[i]], df.data[df.columns[j]]), 98)) =>
                /\ df.columns[j] \notin Range(result.filtered_df.columns)
                /\ (df.columns[i] \in Range(result.filtered_df.columns))
                      <=> ~LaterOfDroppedPair(df, args.iv_summary, i)

\* two distinct columns with correlation > 0.98 (0.983), the later one
\* removed and the earlier one kept, beside a third column
C3_Witness ==
    /\ pc = "done"
    /\ Len(df.columns) = 3
    /\ \E i, j \in 1..3 :
          /\ i < j
          /\ df.data[df.columns[i]] # df.data[df.columns[j]]
          /\ CorrGT(Pearson(df.data[df.columns[i]], df.data[df.columns[j]]), 98)
          /\ df.columns[i] \in Range(result.filtered_df.columns)
          /\ df.columns[j] \notin Range(result.filtered_df.columns)

\* the pairs of high_corr_pairs the rule of the docstring selects
SelectedPairs ==
    {k \in 1..Len(result.high_corr_pairs) :
        LET row == result.high_corr_pairs[k]
        IN \/ CorrGT(row.corr_value, 98)
           \/ (CorrGT(row.corr_value, 95) /\ IvGet(args.iv_summary, row.var2) < 2)}

\* C15: identify_vars_to_drop_correlation returns exactly the var2 of the
\* pairs whose corr_value is > 0.98, or > 0.95 with an IV of var2 below 0.02
\* (no IV counts as 0); a variable that is var1 only is not returned and no
\* variable is listed twice.
C15_DropsVar2OfSelectedPairs ==
    pc = "done" =>
        /\ Range(result.vars_dropped) = {result.high_corr_pairs[k].var2 : k \in SelectedPairs}
        /\ \A k \in 1..Len(result.high_corr_pairs) :
               (\A h \in 1..Len(result.high_corr_pairs) :
                    result.high_corr_pairs[h].var2 # result.high_corr_pairs[k].var1)
                  => result.high_corr_pairs[k].var1 \notin Range(result.vars_dropped)
        /\ Cardinality(Range(result.vars_dropped)) = Len(result.vars_dropped)

\* three pairs: c2 listed for a correlation of 0.983, c3 listed once though
\* it is var2 of a pair at 0.956 without an IV and of a pair at 0.994, and
\* c1, var1 only, not listed
C15_Witness ==
    /\ pc = "done"
    /\ Len(result.high_corr_pairs) = 3
    /\ result.vars_dropped = <<"c2", "c3">>
    /\ "c3" \notin DOMAIN args.iv_summary
    /\ \E k \in 1..3 :
          /\ result.high_corr_pairs[k].var2 = "c3"
          /\ ~CorrGT(result.high_corr_pairs[k].corr_value, 98)
          /\ CorrGT(result.high_corr_pairs[k].corr_value, 95)

\* C16: after the correlation filter no two numeric columns that remain in
\* the dataframe have a signed correlation greater than 0.98 (the matrix is
\* computed anew on the filtered dataframe).
C16_NoHighCorrelationLeft ==
    pc = "done" =>
        LET m == calculate_correlation_matrix(result.filtered_df)
        IN \A i, j \in 1..Len(m.columns) : i # j => ~CorrGT(m.corr[i][j], 98)

\* a column correlated at 0.983 with the first one was removed, while a
\* column correlated at 0.956 with it, of IV 0.05, remains beside it
C16_Witness ==
    /\ pc = "done"
    /\ \E k \in 1..Len(result.high_corr_pairs) :
          /\ CorrGT(result.high_corr_pairs[k].corr_value, 98)
          /\ result.high_corr_pairs[k].var2 \notin Range(result.filtered_df.columns)
    /\ Len(result.filtered_df.columns) = 2
    /\ CorrGT(Pearson(result.filtered_df.data[result.filtered_df.columns[1]],
                      result.filtered_df.data[result.filtered_df.columns[2]]), 95)

(***************************************************************************)
(* VIF filter  (collinear_functions.py)                                    *)
(***************************************************************************)
vif_threshold == 10

\* the default exclude_vars of identify_vars_to_drop_vif
DefaultKeyVars ==
    {"bureau_score", "salary_credit_3m", "emi_to_income_ratio", "dpd_max",
     "dpd_count_30_plus", "utilization_score", "balance_utilization_score", "age",
     "employment_type", "education_level", "marital_status", "risk_score"}

\* a key-variable name a column may carry instead of c1, c2, ...
KeyName(i) == <<"age", "Bureau_Score", "risk_score", "DPD_MAX", "Age", "dpd_max">>[i]

\* str.upper() on the names the model uses
Upper(name) ==
    CASE name = "c1" -> "C1" [] name = "c2" -> "C2" [] name = "c3" -> "C3"
      [] name = "c4" -> "C4" [] name = "c5" -> "C5" [] name = "c6" -> "C6"
      [] name \in {"age", "Age"} -> "AGE"
      [] name \in {"bureau_score", "Bureau_Score"} -> "BUREAU_SCORE"
      [] name = "risk_score" -> "RISK_SCORE"
      [] name \in {"dpd_max", "DPD_MAX"} -> "DPD_MAX"
      [] name = "salary_credit_3m" -> "SALARY_CREDIT_3M"
      [] name = "emi_to_income_ratio" -> "EMI_TO_INCOME_RATIO"
      [] name = "dpd_count_30_plus" -> "DPD_COUNT_30_PLUS"
      [] name = "utilization_score" -> "UTILIZATION_SCORE"
      [] name = "balance_utilization_score" -> "BALANCE_UTILIZATION_SCORE"
      [] name = "employment_type" -> "EMPLOYMENT_TYPE"
      [] name = "education_level" -> "EDUCATION_LEVEL"
      [] name = "marital_status" -> "MARITAL_STATUS"
      [] name = "default_flag" -> "DEFAULT_FLAG"

\* determinant of an m x m integer matrix (expansion along the first row)
RECURSIVE Det(_, _)
Det(M, m) ==
    IF m = 0 THEN 1
    ELSE IF m = 1 THEN M[1][1]
    ELSE SumSeq([c \in 1..m |->
            (IF c % 2 = 1 THEN 1 ELSE -1) * M[1][c]
              * Det([i \in 1..(m - 1) |-> [j \in 1..(m - 1) |->
                        M[i + 1][IF j < c THEN j ELSE j + 1]]], m - 1)])

\* Gram determinant of the centred columns of the matrix cols (a sequence of
\* columns) with the indices in S
GramDet(cols, S) ==
    LET q == SetToSortedSeq(S)
    IN Det([i \in 1..Len(q) |-> [j \in 1..Len(q) |->
               Scatter(cols[q[i]], cols[q[j]])]], Len(q))

\* a largest set of the columns listed in todo that is, with the constant and
\* B, linearly independent (each column is taken unless it depends on those
\* taken before)
RECURSIVE Basis(_, _, _)
Basis(cols, todo, B) ==
    IF todo = <<>> THEN B
    ELSE Basis(cols, Tail(todo),
               IF GramDet(cols, B \cup {todo[1]}) # 0 THEN B \cup {todo[1]} ELSE B)

\* 1 / (1 - R^2) as <<num, den>>, given a basis B of the other columns
VifFromBasis(cols, i, B) ==
    <<Scatter(cols[i], cols[i]) * GramDet(cols, B), GramDet(cols, B \cup {i})>>

\* statsmodels variance_inflation_factor(exog, i): 1 / (1 - R^2) of the
\* regression of column i on a constant and the other columns, as <<num, den>>
\* (den = 0: the division by zero gives inf)
variance_inflation_factor(cols, i) ==
    VifFromBasis(cols, i, Basis(cols, SetToSortedSeq((1..Len(cols)) \ {i}), {}))

\* the list comprehension of lines 183-184
VifList(cols) == [i \in 1..Len(cols) |-> variance_inflation_factor(cols, i)]

\* add_constant(X) has has_constant='skip': with a non-zero constant column in
\* X no constant is added, and variance_inflation_factor(X_const.values, i + 1)
\* indexes past the last column for the last i (IndexError)
IsNonZeroConstant(col) == Scatter(col, col) = 0 /\ \E i \in 1..Len(col) : col[i] # 0

VifComputationRaises(X) ==
    \E c \in Range(X.columns) : IsNonZeroConstant(X.data[c])

EmptyVifTable == <<>>

\* lines 163-170 with exclude_vars=None: the numeric columns but the target
FeatureFrame(d, target_col) ==
    LET feature_cols == SelectSeq(d.columns, LAMBDA c : c # target_col)
    IN [columns |-> feature_cols, data |-> [c \in Range(feature_cols) |-> d.data[c]]]

\* lines 179-184: the VIF table of the feature frame X
VifTable(X) ==
    LET values == VifList([i \in 1..Len(X.columns) |-> X.data[X.columns[i]]])
    IN [i \in 1..Len(X.columns) |-> [variable |-> X.columns[i], VIF |-> values[i]]]

\* (a variant without the try/except of lines 179-187)
calculate_vifAlt(d, target_col) ==
    LET X == FeatureFrame(d, target_col)
    IN IF VifComputationRaises(X) THEN [raised |-> TRUE, vif_df |-> EmptyVifTable]
       ELSE [raised |-> FALSE, vif_df |-> VifTable(X)]

\* raised: whether an exception leaves calculate_vif
calculate_vif(d, target_col) ==
    LET X == FeatureFrame(d, target_col)
    IN IF VifComputationRaises(X) THEN [raised |-> FALSE, vif_df |-> EmptyVifTable]
       ELSE [raised |-> FALSE, vif_df |-> VifTable(X)]

\* VIF > threshold (inf > threshold is True)
VifGT(v, threshold) == v[1] > threshold * v[2]

\* (a variant that compares the names as written)
identify_vars_to_drop_vifAlt(vif_df, threshold, exclude_vars) ==
    LET hit == SelectSeq(vif_df, LAMBDA r :
                   VifGT(r.VIF, threshold) /\ r.variable \notin exclude_vars)
    IN [k \in 1..Len(hit) |-> hit[k].variable]

identify_vars_to_drop_vif(vif_df, threshold, exclude_vars) ==
    LET exclude_vars_upper == {Upper(v) : v \in exclude_vars}
        hit == SelectSeq(vif_df, LAMBDA r :
                   VifGT(r.VIF, threshold) /\ Upper(r.variable) \notin exclude_vars_upper)
    IN [k \in 1..Len(hit) |-> hit[k].variable]

apply_vif_filter(d, vars_to_drop) == DropColumns(d, vars_to_drop)

\* dataframes of 1..n feature columns named c<i>, at most one of them named
\* by a key-variable name instead, with or without the target column
\* default_flag
VifFrames(n) ==
    UNION {{LET names == [i \in 1..k |-> IF i = key THEN KeyName(i) ELSE ColName(i)]
                cols == IF t THEN Append(names, "default_flag") ELSE names
            IN [columns |-> cols,
                data |-> [c \in Range(cols) |->
                             IF c = "default_flag" THEN <<0, 1, 0, 1>>
                             ELSE f[CHOOSE i \in 1..k : names[i] = c]]] :
               f \in [1..k -> ColumnData], key \in 0..k, t \in BOOLEAN} :
           k \in 1..n}

InitVif ==
    /\ pc = "start"
    /\ df \in VifFrames(MaxCols)
    /\ args = [target_col |-> "default_flag", vif_threshold |-> vif_threshold]
    /\ result = None
    /\ session_state = Unused
    /\ env = Unused

\* lines 344-347 of run_full_collinearity_analysis; the call ends "raised"
\* when an exception leaves calculate_vif
CallVifFilter ==
    /\ pc = "start"
    /\ LET v == calculate_vif(df, args.target_col)
           vars_to_drop_vif ==
               identify_vars_to_drop_vif(v.vif_df, args.vif_threshold, DefaultKeyVars)
       IN IF v.raised
          THEN /\ pc' = "raised"
               /\ result' = None
          ELSE /\ pc' = "done"
               /\ result' = [vif_df |-> v.vif_df, vars_dropped |-> vars_to_drop_vif,
                             filtered_df |-> apply_vif_filter(df, vars_to_drop_vif)]
    /\ UNCHANGED <<df, args, session_state, env>>

NextVif == CallVifFilter

SpecVif == InitVif /\ [][NextVif]_vars

(***************************************************************************)
(* Claims about the VIF filter, checked under SpecVif                      *)
(***************************************************************************)
Features(d) == FeatureFrame(d, "default_flag")

\* two different feature columns, one an affine function of the other
PerfectlyCollinear(d, a, b) ==
    /\ a # b
    /\ Scatter(d.data[a], d.data[a]) > 0
    /\ Scatter(d.data[b], d.data[b]) > 0
    /\ Scatter(d.data[a], d.data[b]) * Scatter(d.data[a], d.data[b])
          = Scatter(d.data[a], d.data[a]) * Scatter(d.data[b], d.data[b])

VifRowsOf(vif_df, c) == {k \in 1..Len(vif_df) : vif_df[k].variable = c}

C8_VifErrorPropagates ==
    (pc # "start" /\ VifComputationRaises(Features(df))) => pc = "raised"

\* C8 amended: when the VIF computation inside calculate_vif raises,
\* calculate_vif catches the exception and returns normally an empty table,
\* so the caller drops no variable.
C8_VifErrorSwallowed ==
    (pc # "start" /\ VifComputationRaises(Features(df))) =>
        /\ pc = "done"
        /\ result.vif_df = EmptyVifTable
        /\ result.vars_dropped = <<>>
        /\ result.filtered_df = df

\* a failed VIF computation on a dataframe that holds a perfectly collinear
\* pair of features
C8_Witness ==
    /\ pc = "done"
    /\ VifComputationRaises(Features(df))
    /\ \E a, b \in Range(Features(df).columns) : PerfectlyCollinear(df, a, b)
    /\ result.vif_df = EmptyVifTable

\* C17: identify_vars_to_drop_vif returns no variable whose name is, ignoring
\* letter case, one of the excluded key variables, whatever its VIF, and
\* every variable it returns has a VIF strictly greater than vif_threshold.
C17_KeyVarsNeverDropped ==
    pc = "done" =>
        \A k \in 1..Len(result.vars_dropped) :
            /\ Upper(result.vars_dropped[k]) \notin {Upper(v) : v \in DefaultKeyVars}
            /\ \E r \in VifRowsOf(result.vif_df, result.vars_dropped[k]) :
                   result.vif_df[r].VIF[1] > vif_threshold * result.vif_df[r].VIF[2]

\* a column named like a key variable in another letter case has an
\* infinite VIF and is not returned, while another column is
C17_Witness ==
    /\ pc = "done"
    /\ \E r \in 1..Len(result.vif_df) :
          /\ result.vif_df[r].variable \notin DefaultKeyVars
          /\ Upper(result.vif_df[r].variable) \in {Upper(v) : v \in DefaultKeyVars}
          /\ result.vif_df[r].VIF[2] = 0 /\ result.vif_df[r].VIF[1] > 0
          /\ result.vif_df[r].variable \notin Range(result.vars_dropped)
    /\ result.vars_dropped # <<>>

(***************************************************************************)
(* Near-zero variance filtering  (LGD_EAD_Var_reduction.py, stage 4)       *)
(***************************************************************************)
\* A column is [dtype, values]; a numeric cell holds thousandths (Val(1000) is
\* 1.0), a cell of an object column holds the rank of its string.
ValueScale == 1000      \* cell units per 1.0
std_threshold == 10     \* std < 0.01 of line 294, in cell units

NzvColumns ==
    {[dtype |-> "float64", values |-> <<Val(5000), Val(5000), Val(5000)>>],
     [dtype |-> "float64", values |-> <<Val(0), Val(1000), Val(2000)>>],
     [dtype |-> "float64", values |-> <<Val(0), Val(1), Val(2)>>],
     [dtype |-> "float64", values |-> <<NaN, NaN, NaN>>],
     [dtype |-> "float64", values |-> <<Val(5000), NaN, NaN>>],
     [dtype |-> "float64", values |-> <<Val(0), NaN, Val(1000)>>],
     [dtype |-> "object", values |-> <<Val(1), Val(1), Val(1)>>],
     [dtype |-> "object", values |-> <<Val(1), Val(2), NaN>>]}

\* (a variant that takes every column for a numeric one)
select_dtypes_numberAlt(d) == d.columns

\* df.select_dtypes(include=[np.number]).columns.tolist()
select_dtypes_number(d) == SelectSeq(d.columns, LAMBDA c : d.dtype[c] = "float64")

\* Series.dropna(), as the sequence of the values
dropna(col) ==
    LET kept == SelectSeq(col, LAMBDA v : v # NaN)
    IN [i \in 1..Len(kept) |-> kept[i][1]]

SeqMin(xs) == CHOOSE v \in Range(xs) : \A w \in Range(xs) : v <= w
SeqMax(xs) == CHOOSE v \in Range(xs) : \A w \in Range(xs) : w <= v

\* Series.std() (ddof=1): NaN for a single value, else <<a, b>> standing for
\* sqrt(a / b) cell units
std(xs) ==
    LET n == Len(xs)
    IN IF n < 2 THEN NaN
       ELSE <<n * SumSeq([i \in 1..n |-> xs[i] * xs[i]]) - SumSeq(xs) * SumSeq(xs),
              n * (n - 1)>>

\* stat['std'] < 0.01: False for NaN
StdLT(sd, t) == sd # NaN /\ sd[1] < t * t * sd[2]

\* lines 274-289: the statistics of the numeric columns that have a value
variance_stats(d) ==
    LET withData == SelectSeq(select_dtypes_number(d),
                              LAMBDA c : Len(dropna(d.data[c])) > 0)
    IN [k \in 1..Len(withData) |->
          LET col_data == dropna(d.data[withData[k]])
          IN [variable |-> withData[k],
              std |-> std(col_data),
              min |-> SeqMin(col_data),
              max |-> SeqMax(col_data),
              n |-> Len(col_data),
              nmiss |-> Len(d.data[withData[k]]) - Len(col_data)]]

\* lines 292-296
NzvColumnsToDrop(stats) ==
    LET hit == SelectSeq(stats, LAMBDA stat :
                   StdLT(stat.std, std_threshold) \/ stat.min = stat.max)
    IN [k \in 1..Len(hit) |-> hit[k].variable]

\* df.drop(columns=columns_to_drop) on a dataframe with dtypes
DropTypedColumns(d, columns_to_drop) ==
    LET kept == SelectSeq(d.columns, LAMBDA c : c \notin Range(columns_to_drop))
    IN [columns |-> kept,
        dtype |-> [c \in Range(kept) |-> d.dtype[c]],
        data |-> [c \in Range(kept) |-> d.data[c]]]

stage4_near_zero_variance_filtering(d) ==
    LET stats == variance_stats(d)
        columns_to_drop == NzvColumnsToDrop(stats)
    IN [df_result |-> DropTypedColumns(d, columns_to_drop),
        columns_to_drop |-> columns_to_drop,
        variance_df |-> stats]

\* dataframes of 1..n columns c1..cn drawn from NzvColumns
NzvFrames(n) ==
    UNION {{[columns |-> [i \in 1..k |-> ColName(i)],
             dtype |-> [c \in {ColName(i) : i \in 1..k} |->
                           f[CHOOSE i \in 1..k : ColName(i) = c].dtype],
             data |-> [c \in {ColName(i) : i \in 1..k} |->
                           f[CHOOSE i \in 1..k : ColName(i) = c].values]] :
               f \in [1..k -> NzvColumns]} :
           k \in 1..n}

InitNzv ==
    /\ pc = "start"
    /\ df \in NzvFrames(MaxCols)
    /\ args = Unused
    /\ result = None
    /\ session_state = Unused
    /\ env = Unused

CallStage4 ==
    /\ pc = "start"
    /\ pc' = "done"
    /\ result' = stage4_near_zero_variance_filtering(df)
    /\ UNCHANGED <<df, args, session_state, env>>

NextNzv == CallStage4

SpecNzv == InitNzv /\ [][NextNzv]_vars

(***************************************************************************)
(* Claims about the near-zero variance filter, checked under SpecNzv       *)
(***************************************************************************)
\* the column has a value and its minimum equals its maximum
IsConstantColumn(d, c) ==
    /\ Len(dropna(d.data[c])) > 0
    /\ SeqMin(dropna(d.data[c])) = SeqMax(dropna(d.data[c]))

\* C5 as stated: every column of the input whose minimum equals its maximum is
\* absent from the returned dataframe and listed among the dropped columns.
C5_ConstantAlwaysDropped ==
    pc = "done" =>
        \A c \in Range(df.columns) :
            IsConstantColumn(df, c) =>
                /\ c \notin Range(result.df_result.columns)
                /\ c \in Range(result.columns_to_drop)

\* C5 amended: every numeric column of the input whose minimum equals its
\* maximum is absent from the returned dataframe and listed among the dropped
\* columns; a column that is not numeric is never examined and stays in the
\* returned dataframe, constant or not.
C5_NumericConstantDropped ==
    pc = "done" =>
        \A c \in Range(df.columns) :
            /\ (IsConstantColumn(df, c) /\ df.dtype[c] = "float64") =>
                  /\ c \notin Range(result.df_result.columns)
                  /\ c \in Range(result.columns_to_drop)
            /\ df.dtype[c] # "float64" =>
                  /\ c \in Range(result.df_result.columns)
                  /\ c \notin Range(result.columns_to_drop)

\* a constant numeric column dropped beside a constant object column kept
C5_Witness ==
    /\ pc = "done"
    /\ \E a, b \in Range(df.columns) :
          /\ IsConstantColumn(df, a) /\ df.dtype[a] = "float64"
          /\ Len(dropna(df.data[a])) > 1
          /\ a \in Range(result.columns_to_drop)
          /\ a \notin Range(result.df_result.columns)
          /\ IsConstantColumn(df, b) /\ df.dtype[b] = "object"
          /\ b \in Range(result.df_result.columns)

(***************************************************************************)
(* Deciles of the predicted probability  (logreg_model_functions.py)       *)
(***************************************************************************)
\* A scored dataframe is a sequence of rows [P_1, default_flag]; P_1, written
\* by score_dataset from predict_proba, is never null and is held as an
\* integer number of probability steps.
MaxScored == 12     \* rows of the longer scored dataframes
NDeciles == 10      \* q of line 218

\* pd.qcut(df[prob_col], q=10, labels=False, duplicates='drop') and the
\* assignment of the decile column (lines 217-219)
create_deciles(df_scored) ==
    LET bins == qcut([i \in 1..Len(df_scored) |-> df_scored[i].P_1], NDeciles)
    IN [i \in 1..Len(df_scored) |->
          [P_1 |-> df_scored[i].P_1,
           default_flag |-> df_scored[i].default_flag,
           decile |-> bins[i]]]

\* groupby('decile').agg(...).reset_index().sort_values('decile'): one row per
\* non-null decile (groupby leaves out the rows whose key is NaN); the two
\* means are <<sum, count>>
calculate_performance_summary(df_deciles) ==
    LET keys == SetToSortedSeq({df_deciles[i].decile[1] :
                                  i \in {k \in 1..Len(df_deciles) : df_deciles[k].decile # NaN}})
    IN [g \in 1..Len(keys) |->
          LET grp == SelectSeq(df_deciles, LAMBDA r : r.decile = Val(keys[g]))
              defaults == SumSeq([i \in 1..Len(grp) |-> grp[i].default_flag])
          IN [decile |-> keys[g],
              total_obs |-> Len(grp),
              defaults |-> defaults,
              default_rate |-> <<defaults, Len(grp)>>,
              avg_pred_prob |-> <<SumSeq([i \in 1..Len(grp) |-> grp[i].P_1]), Len(grp)>>]]

\* short scored dataframes with every combination of values, and longer ones
\* whose P_1 rises by one step every g rows
ScoredFrames ==
    {[i \in 1..Len(r) |-> [P_1 |-> r[i].x[1], default_flag |-> r[i].y]] :
        r \in {q \in RowSeqs(MaxRows, MaxVal) :
                  Len(q) > 0 /\ \A i \in 1..Len(q) : q[i].x # NaN}}
    \cup {[i \in 1..n |-> [P_1 |-> i \div g, default_flag |-> (i \div h) % 2]] :
             n \in 1..MaxScored, g \in 1..3, h \in 1..2}

InitDecile ==
    /\ pc = "start"
    /\ df \in ScoredFrames
    /\ args = [prob_col |-> "P_1", target_col |-> "default_flag"]
    /\ result = None
    /\ session_state = Unused
    /\ env = Unused

CallCreateDeciles ==
    /\ pc = "start"
    /\ pc' = "deciles"
    /\ result' = [df_deciles |-> create_deciles(df), perf_summary |-> None]
    /\ UNCHANGED <<df, args, session_state, env>>

CallPerformanceSummary ==
    /\ pc = "deciles"
    /\ pc' = "summary"
    /\ result' = [result EXCEPT
                     !.perf_summary = calculate_performance_summary(result.df_deciles)]
    /\ UNCHANGED <<df, args, session_state, env>>

NextDecile == CallCreateDeciles \/ CallPerformanceSummary

SpecDecile == InitDecile /\ [][NextDecile]_vars

(***************************************************************************)
(* Claims about the deciles, checked under SpecDecile                      *)
(***************************************************************************)
DecileValues(df_deciles) == {df_deciles[i].decile : i \in 1..Len(df_deciles)}

ConstantScore(df_scored) == \A i, j \in 1..Len(df_scored) : df_scored[i].P_1 = df_scored[j].P_1

\* C6 as stated: create_deciles keeps the number of rows and yields at most 10
\* distinct decile values, each in 0..9; the performance summary has at most
\* 10 rows.
C6_DecilesInRange ==
    /\ pc # "start" =>
          /\ Len(result.df_deciles) = Len(df)
          /\ Cardinality(DecileValues(result.df_deciles)) <= 10
          /\ DecileValues(result.df_deciles) \subseteq {Val(k) : k \in 0..9}
    /\ pc = "summary" => Len(result.perf_summary) <= 10

\* C6 amended: for a scored dataframe with at least one row, create_deciles
\* keeps the number of rows and yields at most 10 distinct decile values; when
\* the probabilities are not all equal every decile is in 0..9, and when they
\* are all equal (a single row included) every decile is NaN; the performance
\* summary has one row per non-null decile, so at most 10 rows, and none when
\* the probabilities are all equal.
C6_DecilesInRangeOrNaN ==
    /\ pc # "start" =>
          /\ Len(result.df_deciles) = Len(df)
          /\ Cardinality(DecileValues(result.df_deciles)) <= 10
          /\ IF ConstantScore(df)
             THEN DecileValues(result.df_deciles) = {NaN}
             ELSE DecileValues(result.df_deciles) \subseteq {Val(k) : k \in 0..9}
    /\ pc = "summary" =>
          /\ Len(result.perf_summary) <= 10
          /\ Len(result.perf_summary) = Cardinality(DecileValues(result.df_deciles) \ {NaN})

\* more than 10 distinct probabilities fall into exactly 10 deciles, 0 to 9,
\* and the summary has 10 rows
C6_Witness ==
    /\ pc = "summary"
    /\ Cardinality({df[i].P_1 : i \in 1..Len(df)}) > 10
    /\ DecileValues(result.df_deciles) = {Val(k) : k \in 0..9}
    /\ Len(result.perf_summary) = 10

(***************************************************************************)
(* Global random-number state and duplicate column detection               *)
(* (numpy global RNG; var_meta_functions.py, step 7)                       *)
(***************************************************************************)
\* The state of numpy's global generator is the seed it was last given and the
\* number of values drawn since; the i-th value drawn after a seed is the
\* record of that seed and position (equal records are equal numbers).
np_random_seed(seed) == [seed |-> seed, pos |-> 0]

Draw(rng, i) == [seed |-> rng.seed, pos |-> rng.pos + i]

Advance(rng, n) == [rng EXCEPT !.pos = @ + n]

DefaultSampleSize == 1000

\* [f'dpd_m{i}' for i in range(1, 13)]
exclude_columns ==
    {"dpd_m1", "dpd_m2", "dpd_m3", "dpd_m4", "dpd_m5", "dpd_m6",
     "dpd_m7", "dpd_m8", "dpd_m9", "dpd_m10", "dpd_m11", "dpd_m12"}

NRows(d) == Len(d.data[d.columns[1]])

\* df.sample(n=n) with the global generator: the row labels of the sample in
\* the order drawn; the permutation of the generator is represented by the
\* rows taken cyclically from an offset that the generator state fixes
SampleRows(nrows, n, rng) ==
    LET offset == (rng.seed + rng.pos) % nrows
    IN [i \in 1..n |-> ((offset + i - 1) % nrows) + 1]

\* str(val) of a non-negative integer, as its sequence of decimal digits
RECURSIVE Str(_)
Str(v) == IF v < 10 THEN <<v>> ELSE Str(v \div 10) \o <<v % 10>>

\* ''.join(...) of a sequence of strings
RECURSIVE Join(_)
Join(strs) ==
    IF Len(strs) = 0 THEN <<>>
    ELSE IF Len(strs) = 1 THEN strs[1]
    ELSE LET h == Len(strs) \div 2
         IN Join(SubSeq(strs, 1, h)) \o Join(SubSeq(strs, h + 1, Len(strs)))

\* create_hash (lines 158-163): the strings of the non-null values of one
\* column, in the order of the sampled rows, joined without a separator; md5
\* is represented by the string it digests (distinct strings have distinct
\* digests)
create_hash(col, rows) ==
    LET row_values == [i \in 1..Len(rows) |-> col[rows[i]]]
        kept == SelectSeq(row_values, LAMBDA v : v # NaN)
    IN Join([i \in 1..Len(kept) |-> Str(kept[i][1])])

\* the first position in lo..hi at which a and b differ, hi + 1 if none
RECURSIVE FirstDiff(_, _, _, _)
FirstDiff(a, b, lo, hi) ==
    IF lo > hi THEN lo
    ELSE LET mid == (lo + hi) \div 2
         IN IF SubSeq(a, lo, mid) = SubSeq(b, lo, mid)
            THEN FirstDiff(a, b, mid + 1, hi)
            ELSE FirstDiff(a, b, lo, mid - 1)

\* order of two digests under sort_values('digest'): the order of the strings
DigestLess(a, b) ==
    LET m == Min2(Len(a), Len(b))
        i == FirstDiff(a, b, 1, m)
    IN IF i > m THEN Len(a) < Len(b) ELSE a[i] < b[i]

\* step7_duplicate_columns(df, sample_size) under the generator state rng;
\* tie_order is the order in which sort_values (quicksort, not stable) leaves
\* columns of equal digest: "stable" keeps the column order, "reversed" turns
\* it round.  Returns the table and the generator state after the call.
step7_duplicate_columns(d, sample_size, rng, tie_order) ==
    LET nrows == NRows(d)
        sampled == sample_size # 0 /\ nrows > sample_size
        rows == Materialize(IF sampled THEN SampleRows(nrows, Min2(sample_size, nrows), rng)
                            ELSE [i \in 1..nrows |-> i])
        columns_to_check == SelectSeq(d.columns, LAMBDA c : c \notin exclude_columns)
        n == Len(columns_to_check)
        digest == Materialize([k \in 1..n |-> create_hash(d.data[columns_to_check[k]], rows)])
        Before(j, k) ==
            \/ DigestLess(digest[j], digest[k])
            \/ /\ digest[j] = digest[k]
               /\ IF tie_order = "stable" THEN j < k ELSE j > k
        rank == Materialize([k \in 1..n |-> Cardinality({j \in 1..n : Before(j, k)}) + 1])
        hashed_columns ==
            Materialize([p \in 1..n |->
                LET k == CHOOSE k \in 1..n : rank[k] = p
                IN [column_name |-> columns_to_check[k],
                    group_id |-> Cardinality({digest[j] : j \in
                                    {i \in 1..n : rank[i] <= p}})]])
        duplicate_columns_final ==
            SelectSeq(hashed_columns, LAMBDA r :
                Cardinality({p \in 1..n : hashed_columns[p].group_id = r.group_id}) > 1)
    IN [table |-> [p \in 1..Len(duplicate_columns_final) |->
                      [group_id |-> duplicate_columns_final[p].group_id,
                       column_name |-> duplicate_columns_final[p].column_name]],
        rng |-> IF sampled THEN Advance(rng, nrows) ELSE rng]

\* step7_get_duplicate_list: every column of a group but the first
step7_get_duplicate_list(df_duplicates) ==
    LET rest == SelectSeq([p \in 1..Len(df_duplicates) |->
                              [p |-> p, row |-> df_duplicates[p]]],
                          LAMBDA e : \E q \in 1..(e.p - 1) :
                              df_duplicates[q].group_id = e.row.group_id)
    IN [i \in 1..Len(rest) |-> rest[i].row.column_name]

(***************************************************************************)
(* Step functions under the wall clock and the global generator            *)
(* (data_pipeline_functions.py, logreg_model_functions.py)                 *)
(***************************************************************************)
MaxClock == 2       \* days the wall clock can advance
MaxCalls == 3       \* step function calls in one behaviour
Stage9Seed == 42
PrepareSeed == 12345

\* stage5_disburse_vars at the wall-clock day today, on rows of
\* [account_open_date, tenure_months, ...] with dates as day numbers: the
\* tenure and loan lifecycle columns it adds (lines 206-227)
stage5_disburse_vars(rows, today) ==
    [i \in 1..Len(rows) |->
        LET active_tenure_months == (today - rows[i].account_open_date) \div 30
        IN [account_open_date |-> rows[i].account_open_date,
            tenure_months |-> rows[i].tenure_months,
            long_tenure_flag |-> IF rows[i].tenure_months > 60 THEN 1 ELSE 0,
            short_term_loan_flag |-> IF rows[i].tenure_months <= 12 THEN 1 ELSE 0,
            tenure_bucket |-> rows[i].tenure_months \div 12,
            active_tenure_months |-> active_tenure_months,
            account_age_bucket |-> active_tenure_months \div 6,
            account_fresh_flag |-> IF active_tenure_months <= 3 THEN 1 ELSE 0,
            account_mature_flag |-> IF active_tenure_months > 24 THEN 1 ELSE 0,
            loan_cycle_position |->
                IF 2 * active_tenure_months < rows[i].tenure_months
                THEN "Early" ELSE "Late"]]

\* stage9_txn_vars(df, random_seed): seeds the global generator, draws two
\* normal samples of len(df) values and adds the bureau score columns; returns
\* the dataframe and the generator state it leaves
stage9_txn_vars(rows, random_seed) ==
    LET seeded == np_random_seed(random_seed)
        n == Len(rows)
    IN [out |-> [i \in 1..n |->
                   [bureau_score |-> rows[i].bureau_score,
                    internal_behavior_score |-> [plus |-> 650, normal |-> Draw(seeded, i)],
                    behavior_stability_index |-> [plus |-> 75, normal |-> Draw(seeded, n + i)],
                    low_bureau_score_flag |-> IF rows[i].bureau_score < 600 THEN 1 ELSE 0,
                    high_bureau_score_flag |-> IF rows[i].bureau_score >= 750 THEN 1 ELSE 0,
                    bureau_score_bucket_50 |-> (rows[i].bureau_score \div 50) * 50]],
        rng |-> Advance(seeded, 2 * n)]

\* prepare_model_data on rows with a dpd_max column: dpd_max is standardised
\* ((x - mean) / std as <<n x - sum, n sum x^2 - sum^2>>), the generator is
\* seeded with 12345 and a uniform sample is added (lines 33-47)
prepare_model_data(rows) ==
    LET seeded == np_random_seed(PrepareSeed)
        n == Len(rows)
        sum == SumSeq([i \in 1..n |-> rows[i].dpd_max])
        sumsq == SumSeq([i \in 1..n |-> rows[i].dpd_max * rows[i].dpd_max])
    IN [out |-> [i \in 1..n |->
                   [bureau_score |-> rows[i].bureau_score,
                    dpd_max_adj |-> [scaled |-> <<n * rows[i].dpd_max - sum,
                                                   n * sumsq - sum * sum>>,
                                     uniform |-> Draw(seeded, i)]]],
        rng |-> Advance(seeded, n)]

\* the raw rows handed to the stages: the second account opens on one of two
\* days
PipelineFrames ==
    {<<[account_open_date |-> -29, tenure_months |-> 12, bureau_score |-> 700, dpd_max |-> 0],
       [account_open_date |-> d, tenure_months |-> t, bureau_score |-> 580, dpd_max |-> 30]>> :
        d \in {-150, -89}, t \in {6}}

\* the dataframes handed to step 7, of 2 or sample_size + 1 rows: x1 is
\* constant, x2 equals x1 or differs from it in the last row only, x3
\* alternates
MetaFrames ==
    {[columns |-> <<"x1", "x2", "x3">>,
      data |-> [c \in {"x1", "x2", "x3"} |->
                  [i \in 1..n |->
                      IF c = "x1" THEN Val(1)
                      ELSE IF c = "x2" THEN (IF i = n /\ last THEN Val(0) ELSE Val(1))
                      ELSE Val(i % 2)]]] :
        n \in {2, DefaultSampleSize + 1}, last \in BOOLEAN}

StepNames == {"stage5_disburse_vars", "stage9_txn_vars", "prepare_model_data",
              "step7_duplicate_columns"}

InitSteps ==
    /\ pc = "start"
    /\ df \in [pipeline : PipelineFrames, meta : MetaFrames]
    /\ args = [random_seed |-> Stage9Seed, sample_size |-> DefaultSampleSize]
    /\ result = [first |-> [f \in StepNames |-> None], again |-> [f \in StepNames |-> None]]
    /\ session_state = Unused
    /\ env \in [clock : {0}, rng : {np_random_seed(s) : s \in {0, 1}},
                tie_order : {"stable", "reversed"}, calls : {0}]

\* the result of a call of step f is kept: the first one, and the latest of
\* the later ones
Returned(f, out) ==
    /\ pc' = f
    /\ result' = IF result.first[f] = None
                 THEN [result EXCEPT !.first[f] = Val(out)]
                 ELSE [result EXCEPT !.again[f] = Val(out)]

\* a day passes on the wall clock
Tick ==
    /\ env.clock < MaxClock
    /\ env' = [env EXCEPT !.clock = @ + 1]
    /\ UNCHANGED <<pc, df, args, result, session_state>>

CallStage5 ==
    /\ env.calls < MaxCalls
    /\ Returned("stage5_disburse_vars", stage5_disburse_vars(df.pipeline, env.clock))
    /\ env' = [env EXCEPT !.calls = @ + 1]
    /\ UNCHANGED <<df, args, session_state>>

CallStage9 ==
    /\ env.calls < MaxCalls
    /\ LET r == stage9_txn_vars(df.pipeline, args.random_seed)
       IN /\ Returned("stage9_txn_vars", r.out)
          /\ env' = [env EXCEPT !.calls = @ + 1, !.rng = r.rng]
    /\ UNCHANGED <<df, args, session_state>>

CallPrepareModelData ==
    /\ env.calls < MaxCalls
    /\ LET r == prepare_model_data(df.pipeline)
       IN /\ Returned("prepare_model_data", r.out)
          /\ env' = [env EXCEPT !.calls = @ + 1, !.rng = r.rng]
    /\ UNCHANGED <<df, args, session_state>>

CallStep7 ==
    /\ env.calls < MaxCalls
    /\ LET r == step7_duplicate_columns(df.meta, args.sample_size, env.rng, env.tie_order)
       IN /\ Returned("step7_duplicate_columns", r.table)
          /\ env' = [env EXCEPT !.calls = @ + 1, !.rng = r.rng]
    /\ UNCHANGED <<df, args, session_state>>

NextSteps == Tick \/ CallStage5 \/ CallStage9 \/ CallPrepareModelData \/ CallStep7

SpecSteps == InitSteps /\ [][NextSteps]_vars

(***************************************************************************)
(* Claims about the step functions, checked under SpecSteps                *)
(***************************************************************************)
\* C7: every step function is stateless: a later call with the same
\* dataframe and arguments returns what the first call returned, whatever was
\* called in between, whatever the wall-clock time and the state of the global
\* random-number generator.
C7_Stateless ==
    \A f \in StepNames :
        result.again[f] # None => result.again[f] = result.first[f]

(***************************************************************************)
(* Step-by-step pages  (data_pipeline.py, LGD_EAD_Var_reduction.py)        *)
(***************************************************************************)
\* session_state is st.session_state: keys is the set of keys present, the
\* other fields hold their values (a key that is absent holds its initial
\* value).  raw_data / input_data are "None" or "df"; stage_results maps stage
\* indices to [page, stage], the page whose stage function produced the
\* result.  env.page is the query parameter "project", the page being shown.
NumPipelineStages == 11     \* len(STAGES) of data_pipeline.py
NumLgdStages == 5           \* len(STAGES) of LGD_EAD_Var_reduction.py

PipelinePage == "data_pipeline.py"
LgdPage == "LGD_EAD_Var_reduction.py"
OtherPage == "var_metadata_analysis.py"

NoResults == [i \in {} |-> [page |-> "", stage |-> 0]]

NumStages(page) == IF page = PipelinePage THEN NumPipelineStages ELSE NumLgdStages

\* data_pipeline.py lines 69-90, run at the top of every run of the page
PipelineScriptTop(ss, current_page) ==
    LET fresh == current_page = PipelinePage /\ ss.last_page # PipelinePage
    IN [ss EXCEPT
          !.keys = @ \cup {"last_page", "raw_data", "current_stage", "stage_results"},
          !.last_page = current_page,
          !.raw_data = IF fresh \/ "raw_data" \notin ss.keys THEN "None" ELSE @,
          !.current_stage = IF fresh \/ "current_stage" \notin ss.keys THEN 0 ELSE @,
          !.stage_results = IF fresh \/ "stage_results" \notin ss.keys THEN NoResults ELSE @]

\* LGD_EAD_Var_reduction.py lines 57-77, and the automatic load at the top of
\* main (lines 464-470); loaded is what load_data_from_file returns
LgdScriptTop(ss, current_page, loaded) ==
    LET fresh == current_page = LgdPage /\ ss.last_page_lgd_ead # LgdPage
        top == [ss EXCEPT
                  !.keys = @ \cup {"last_page_lgd_ead", "input_data", "current_stage",
                                   "stage_results"},
                  !.last_page_lgd_ead = current_page,
                  !.input_data = IF fresh \/ "input_data" \notin ss.keys THEN "None" ELSE @,
                  !.current_stage = IF fresh \/ "current_stage" \notin ss.keys THEN 0 ELSE @,
                  !.stage_results = IF fresh \/ "stage_results" \notin ss.keys
                                    THEN NoResults ELSE @]
    IN IF top.input_data = "None" /\ loaded # "None"
       THEN [top EXCEPT !.input_data = loaded, !.current_stage = 0,
                        !.stage_results = NoResults]
       ELSE top

\* the data the current page works on
PageData(ss, page) == IF page = PipelinePage THEN ss.raw_data ELSE ss.input_data

InitPage ==
    /\ pc = "idle"
    /\ df = Unused
    /\ args = Unused
    /\ result = [before |-> None]
    /\ session_state = [keys |-> {}, last_page |-> "", last_page_lgd_ead |-> "",
                        raw_data |-> "None", input_data |-> "None",
                        current_stage |-> 0, stage_results |-> NoResults]
    /\ env = [page |-> OtherPage]

\* the user opens a project page: the page script runs from its top
OpenPage ==
    \E page \in {PipelinePage, LgdPage, OtherPage}, loaded \in {"None", "df"} :
        /\ page # env.page
        /\ env' = [env EXCEPT !.page = page]
        /\ session_state' =
              IF page = PipelinePage THEN PipelineScriptTop(session_state, page)
              ELSE IF page = LgdPage THEN LgdScriptTop(session_state, page, loaded)
              ELSE session_state
        /\ pc' = "idle"
        /\ result' = [before |-> None]
        /\ UNCHANGED <<df, args>>

\* "Load Raw Data" in the sidebar of the data pipeline page (lines 417-425)
LoadRawData ==
    \E data \in {"None", "df"} :
        /\ env.page = PipelinePage
        /\ session_state' =
              IF data # "None"
              THEN [session_state EXCEPT !.raw_data = data, !.current_stage = 0,
                                         !.stage_results = NoResults]
              ELSE session_state
        /\ pc' = "idle"
        /\ result' = [before |-> None]
        /\ UNCHANGED <<df, args, env>>

\* a stage button of the sidebar (data_pipeline.py lines 432-438,
\* LGD_EAD_Var_reduction.py lines 486-492)
NavStage ==
    \E i \in 0..(NumStages(env.page) - 1) :
        /\ env.page \in {PipelinePage, LgdPage}
        /\ PageData(session_state, env.page) # "None"
        /\ ~(i > session_state.current_stage)
        /\ session_state' = [session_state EXCEPT !.current_stage = i]
        /\ pc' = "idle"
        /\ result' = [before |-> None]
        /\ UNCHANGED <<df, args, env>>

\* "Reset All Stages" (data_pipeline.py lines 441-444,
\* LGD_EAD_Var_reduction.py lines 495-498)
ResetAllStages ==
    /\ env.page \in {PipelinePage, LgdPage}
    /\ PageData(session_state, env.page) # "None"
    /\ session_state' = [session_state EXCEPT !.current_stage = 0,
                                              !.stage_results = NoResults]
    /\ pc' = "idle"
    /\ result' = [before |-> None]
    /\ UNCHANGED <<df, args, env>>

\* the page is run again without a click (browser refresh): its script top
Refresh ==
    \E loaded \in {"None", "df"} :
        /\ env.page \in {PipelinePage, LgdPage}
        /\ session_state' =
              IF env.page = PipelinePage THEN PipelineScriptTop(session_state, env.page)
              ELSE LgdScriptTop(session_state, env.page, loaded)
        /\ pc' = "idle"
        /\ result' = [before |-> None]
        /\ UNCHANGED <<df, args, env>>

\* what Execute Stage leaves in pc and session_state; before the click the
\* stage index and the stage results are recorded in result.before
Clicked(outcome, ss) ==
    /\ pc' = outcome
    /\ session_state' = ss
    /\ result' = [before |-> Val([current_stage |-> session_state.current_stage,
                                  stage_results |-> session_state.stage_results])]

\* "Execute Stage" of the data pipeline page (lines 465-507); outcome says
\* whether the stage function or the CSV save raises
ExecuteStagePipeline ==
    \E outcome \in {"ok", "stage_raises", "save_raises"} :
        LET current_stage_idx == session_state.current_stage
            is_final_stage == current_stage_idx = NumPipelineStages - 1
            all_stages_completed ==
                Cardinality(DOMAIN session_state.stage_results) = NumPipelineStages
            execute_disabled == current_stage_idx \in DOMAIN session_state.stage_results
            input_missing == /\ current_stage_idx # 0
                             /\ (current_stage_idx - 1) \notin DOMAIN session_state.stage_results
            input_foreign == /\ current_stage_idx # 0
                             /\ ~input_missing
                             /\ session_state.stage_results[current_stage_idx - 1].page
                                   # PipelinePage
            stored == [session_state EXCEPT
                          !.stage_results =
                              [i \in DOMAIN @ \cup {current_stage_idx} |->
                                  IF i = current_stage_idx
                                  THEN [page |-> PipelinePage, stage |-> i] ELSE @[i]]]
        IN /\ env.page = PipelinePage
           /\ session_state.raw_data # "None"
           /\ ~(is_final_stage /\ all_stages_completed)
           /\ ~execute_disabled
           /\ outcome = "save_raises" => is_final_stage
           /\ IF input_missing \/ input_foreign \/ outcome = "stage_raises"
              THEN Clicked("error_shown", session_state)
              ELSE IF outcome = "save_raises"
              THEN Clicked("error_shown", stored)
              ELSE Clicked("executed",
                     [stored EXCEPT !.current_stage =
                         Min2(current_stage_idx + 1, NumPipelineStages - 1)])
           /\ UNCHANGED <<df, args, env>>

\* "Execute Stage" of the LGD/EAD page (lines 516-568): the input is fetched
\* before the try, every stage saves its CSV files before the result is stored
ExecuteStageLgd ==
    \E outcome \in {"ok", "stage_raises", "save_raises"} :
        LET current_stage_idx == session_state.current_stage
            execute_disabled == current_stage_idx \in DOMAIN session_state.stage_results
            input_missing == /\ current_stage_idx # 0
                             /\ (current_stage_idx - 1) \notin DOMAIN session_state.stage_results
            input_foreign == /\ current_stage_idx # 0
                             /\ ~input_missing
                             /\ session_state.stage_results[current_stage_idx - 1].page
                                   # LgdPage
            stored == [session_state EXCEPT
                          !.stage_results =
                              [i \in DOMAIN @ \cup {current_stage_idx} |->
                                  IF i = current_stage_idx
                                  THEN [page |-> LgdPage, stage |-> i] ELSE @[i]]]
        IN /\ env.page = LgdPage
           /\ session_state.input_data # "None"
           /\ current_stage_idx < NumLgdStages
           /\ ~execute_disabled
           /\ IF input_missing \/ input_foreign
              THEN Clicked("uncaught", session_state)
              ELSE IF outcome \in {"stage_raises", "save_raises"}
              THEN Clicked("error_shown", session_state)
              ELSE Clicked("executed",
                     [stored EXCEPT !.current_stage =
                         Min2(current_stage_idx + 1, NumLgdStages - 1)])
           /\ UNCHANGED <<df, args, env>>

\* (a variant whose button is enabled without a result of the current stage)
NextStageAlt ==
    /\ env.page = LgdPage
    /\ session_state.input_data # "None"
    /\ session_state.current_stage < NumLgdStages - 1
    /\ session_state' = [session_state EXCEPT !.current_stage = @ + 1]
    /\ pc' = "idle"
    /\ result' = [before |-> None]
    /\ UNCHANGED <<df, args, env>>

\* "Next Stage" of the LGD/EAD page (lines 637-642)
NextStage ==
    /\ env.page = LgdPage
    /\ session_state.input_data # "None"
    /\ session_state.current_stage < NumLgdStages - 1
    /\ session_state.current_stage \in DOMAIN session_state.stage_results
    /\ session_state' = [session_state EXCEPT !.current_stage = @ + 1]
    /\ pc' = "idle"
    /\ result' = [before |-> None]
    /\ UNCHANGED <<df, args, env>>

\* "Proceed to next Analysis" of the data pipeline page (lines 470-474)
ProceedToNextAnalysis ==
    /\ env.page = PipelinePage
    /\ session_state.raw_data # "None"
    /\ session_state.current_stage = NumPipelineStages - 1
    /\ Cardinality(DOMAIN session_state.stage_results) = NumPipelineStages
    /\ env' = [env EXCEPT !.page = OtherPage]
    /\ pc' = "idle"
    /\ result' = [before |-> None]
    /\ UNCHANGED <<df, args, session_state>>

NextPage ==
    \/ OpenPage \/ Refresh \/ LoadRawData \/ NavStage \/ ResetAllStages
    \/ ExecuteStagePipeline \/ ExecuteStageLgd \/ NextStage \/ ProceedToNextAnalysis

SpecPage == InitPage /\ [][NextPage]_vars

(***************************************************************************)
(* Claims about the pages, checked under SpecPage                          *)
(***************************************************************************)
\* C9: when the stage function or the CSV save raises after an Execute Stage
\* click, the exception is caught and shown, and current_stage and
\* stage_results are what they were before the click.
C9_FailedExecuteLeavesState ==
    pc = "error_shown" =>
        /\ session_state.current_stage = result.before[1].current_stage
        /\ session_state.stage_results = result.before[1].stage_results

\* C20: on a step-by-step page every stage with an index below
\* current_stage has a stored result in stage_results, whatever Execute
\* Stage, stage navigation, Next Stage and Reset All Stages clicks came
\* before; hence an Execute Stage click on a stage k > 0 finds a stored
\* result of stage k-1.
C20_EarlierStagesHaveResults ==
    /\ \A i \in 0..(session_state.current_stage - 1) :
           i \in DOMAIN session_state.stage_results
    /\ (pc \in {"executed", "error_shown", "uncaught"}
           /\ result.before[1].current_stage > 0)
          => (result.before[1].current_stage - 1) \in DOMAIN result.before[1].stage_results

\* Execute Stage has just run the last stage of the LGD/EAD page on the
\* result of the stage before, every stored result being one of this page
C20_Witness ==
    /\ pc = "executed"
    /\ env.page = LgdPage
    /\ result.before[1].current_stage = NumLgdStages - 1
    /\ DOMAIN session_state.stage_results = 0..(NumLgdStages - 1)
    /\ \A i \in DOMAIN session_state.stage_results :
           session_state.stage_results[i].page = LgdPage

\* C21: the pages are independent: a step-by-step page that is shown holds
\* no stage result that a different page wrote, its stage state having been
\* reset when it was opened after another page.
C21_PageStateIsOwn ==
    env.page \in {PipelinePage, LgdPage} =>
        \A i \in DOMAIN session_state.stage_results :
            session_state.stage_results[i].page = env.page

(***************************************************************************)
(* Step 7 against the hardcoded list of step 8  (test_step7_step8.py)      *)
(***************************************************************************)
MaxRawRows == 3     \* rows of the raw data handed to the pipeline

\* df[name] = col on a dataframe of columns
WithColumn(d, name, col) ==
    [columns |-> IF name \in Range(d.columns) THEN d.columns ELSE Append(d.columns, name),
     data |-> [c \in Range(d.columns) \cup {name} |-> IF c = name THEN col ELSE d.data[c]]]

ConstantColumn(d, v) == [i \in 1..NRows(d) |-> Val(v)]

\* stage1_bureau_vars, the columns bureau_score_flag and bureau_score_low_flag
\* (lines 20 and 44)
stage1_bureau_vars(d) ==
    LET flag == [i \in 1..NRows(d) |->
                    Val(IF d.data["bureau_score"][i][1] < 650 THEN 1 ELSE 0)]
    IN WithColumn(WithColumn(d, "bureau_score_flag", flag), "bureau_score_low_flag", flag)

\* stage3_dpd_vars, the columns dpd_m1, dpd_m2, dpd_m3, dpd_m5, dpd_m6,
\* dpd_last_month and recent_dpd_score (lines 100-105, 131, 150)
stage3_dpd_vars(d) ==
    LET d1 == WithColumn(d, "dpd_m1", ConstantColumn(d, 0))
        d2 == WithColumn(d1, "dpd_m2", ConstantColumn(d, 30))
        d3 == WithColumn(d2, "dpd_m3", ConstantColumn(d, 0))
        d5 == WithColumn(d3, "dpd_m5", ConstantColumn(d, 0))
        d6 == WithColumn(d5, "dpd_m6", ConstantColumn(d, 90))
        d7 == WithColumn(d6, "dpd_last_month", d6.data["dpd_m6"])
    IN WithColumn(d7, "recent_dpd_score", d7.data["dpd_last_month"])

\* stage9_txn_vars, the columns manual_override_flag and
\* external_override_flag (lines 375 and 398)
Stage9OverrideFlags(d) ==
    LET d1 == WithColumn(d, "manual_override_flag", ConstantColumn(d, 0))
    IN WithColumn(d1, "external_override_flag",
           [i \in 1..NRows(d) |->
               Val(IF d1.data["manual_override_flag"][i][1] = 1 THEN 1 ELSE 0)])

\* the stages run one after the other on the raw data (test lines 43-65),
\* reduced to the columns above
PipelineStages(raw) == Stage9OverrideFlags(stage3_dpd_vars(stage1_bureau_vars(raw)))

step8_get_hardcoded_list ==
    <<"repayment_rate_flag", "recovery_effectiveness_score", "low_credit_limit_flag",
      "low_loan_flag", "ptp_honored_ratio", "ptp_ratio_score", "ptp_kept_score",
      "combined_score_flag", "loan_weighted_score", "dpd_variance", "emi_income_flag",
      "dpd_avg", "credit_limit_bucket", "requested_amount_bucket", "dpd_max_days",
      "dpd_last_month", "max_dpd_days", "recent_dpd_score", "fast_funding_flag",
      "account_ratio_active", "dpd_3m_total", "affordability_flag", "dpd_ratio",
      "high_credit_limit_flag", "limit_score_flag", "loan_size_flag", "size_bucket_flag",
      "enquiry_below650_flag", "dpd_f2", "dpd_f3", "dpd_f4", "dpd_f5", "dpd_f6",
      "credit_limit", "requested_amt", "high_risk_band_flag", "bureau_score_low_flag",
      "write_off_case_flag", "writeoff_flag_combined", "writeoff_recovery_flag",
      "legal_action_taken_flag", "legal_case_escalated_flag", "legal_initiated_flag",
      "legal_escalation_score", "legal_action_flag", "score_agreement_flag",
      "dpd_count_30_plus", "recovery_bucket_score", "emi_ratio_buffer",
      "loan_request_score", "avg_balance_flag", "emi_bounce_flag", "high_balance_flag",
      "bounce_flag", "high_avg_bal_flag", "dpd_m1", "dpd_m3", "dpd_m5">>

\* raw data of 1..n rows with a bureau score each
RawFrames(n) ==
    UNION {{[columns |-> <<"bureau_score">>, data |-> [c \in {"bureau_score"} |-> col]] :
               col \in [1..k -> {Val(580), Val(700), Val(710)}]} : k \in 1..n}

InitDup ==
    /\ pc = "start"
    /\ df \in RawFrames(MaxRawRows)
    /\ args = [sample_size |-> DefaultSampleSize]
    /\ result = [step7_result |-> None, step7_duplicate_list |-> None, outcome |-> None]
    /\ session_state = Unused
    /\ env \in [rng : {np_random_seed(Stage9Seed)}, tie_order : {"stable", "reversed"}]

\* test lines 43-65: df becomes the output of the pipeline stages
RunPipelineStages ==
    /\ pc = "start"
    /\ pc' = "pipeline_done"
    /\ df' = PipelineStages(df)
    /\ UNCHANGED <<args, result, session_state, env>>

\* test line 71
RunStep7 ==
    /\ pc = "pipeline_done"
    /\ pc' = "step7_done"
    /\ LET r == step7_duplicate_columns(df, args.sample_size, env.rng, env.tie_order)
       IN /\ result' = [result EXCEPT !.step7_result = Val(r.table)]
          /\ env' = [env EXCEPT !.rng = r.rng]
    /\ UNCHANGED <<df, args, session_state>>

\* test line 77
RunGetDuplicateList ==
    /\ pc = "step7_done"
    /\ pc' = "list_done"
    /\ result' = [result EXCEPT
                     !.step7_duplicate_list =
                         Val(step7_get_duplicate_list(result.step7_result[1]))]
    /\ UNCHANGED <<df, args, session_state, env>>

\* test lines 81-95, with the hardcoded list reduced to the columns of df
Compare ==
    /\ pc = "list_done"
    /\ pc' = "compared"
    /\ result' = [result EXCEPT
                     !.outcome =
                         IF Range(result.step7_duplicate_list[1])
                              = Range(step8_get_hardcoded_list) \cap Range(df.columns)
                         THEN <<"MATCH">> ELSE <<"DIFFER">>]
    /\ UNCHANGED <<df, args, session_state, env>>

NextDup == RunPipelineStages \/ RunStep7 \/ RunGetDuplicateList \/ Compare

SpecDup == InitDup /\ [][NextDup]_vars

(***************************************************************************)
(* Claims about step 7 and step 8, checked under SpecDup                   *)
(***************************************************************************)
\* C10: on the output of the pipeline stages, the set of columns of
\* step7_get_duplicate_list equals the set of columns of
\* step8_get_hardcoded_list (among the columns the dataframe holds): the test
\* ends with MATCH.
C10_Step7MatchesHardcoded ==
    pc = "compared" => result.outcome = <<"MATCH">>

(***************************************************************************)
(* ScorecardModel  (scorecard/models.py)                                   *)
(***************************************************************************)
\* env.self is one ScorecardModel instance: its model_type, its flag
\* is_trained and the state of the wrapped estimator self.model ("unfitted",
\* "fitted", or "partial" after a fit that raised).  env.train_returned
\* records that a train call has returned normally; result is the last call
\* and how it ended.
MaxModelCalls == 4      \* calls made on the instance in one behaviour

ModelTypes == {"logistic", "random_forest", "gradient_boosting", "decision_tree", "cnn"}

\* ScorecardModel.__init__ (lines 39-53)
ScorecardModel_init(model_type) ==
    [model_type |-> model_type, model |-> "unfitted", is_trained |-> FALSE]

\* (a variant that sets the flag before the estimator is fitted)
trainAlt(self, fit_raises) ==
    IF fit_raises
    THEN [self |-> [self EXCEPT !.model = "partial", !.is_trained = TRUE],
          outcome |-> "fit_error"]
    ELSE [self |-> [self EXCEPT !.model = "fitted", !.is_trained = TRUE],
          outcome |-> "returned"]

\* ScorecardModel.train (lines 143-181): self.model.fit, then the flag; an
\* exception of fit leaves the flag as it was
train(self, fit_raises) ==
    IF fit_raises
    THEN [self |-> [self EXCEPT !.model = "partial"], outcome |-> "fit_error"]
    ELSE [self |-> [self EXCEPT !.model = "fitted", !.is_trained = TRUE],
          outcome |-> "returned"]

\* ScorecardModel.predict_proba (lines 183-212); the wrapped estimator raises
\* its own error on a bad X or when a later fit left it half fitted
predict_proba(self, bad_X) ==
    IF ~self.is_trained THEN "ValueError"
    ELSE IF bad_X \/ self.model # "fitted" THEN "estimator_error"
    ELSE "returned"

\* ScorecardModel.predict (lines 214-228)
predict(self, bad_X) ==
    IF ~self.is_trained THEN "ValueError"
    ELSE IF bad_X \/ self.model # "fitted" THEN "estimator_error"
    ELSE "returned"

InitModel ==
    /\ pc = "constructed"
    /\ df = Unused
    /\ args = Unused
    /\ result = [call |-> "__init__", outcome |-> "returned"]
    /\ session_state = Unused
    /\ env \in [self : {ScorecardModel_init(t) : t \in ModelTypes},
                train_returned : {FALSE}, calls : {0}]

CallTrain ==
    \E fit_raises \in BOOLEAN :
        LET r == train(env.self, fit_raises)
        IN /\ env.calls < MaxModelCalls
           /\ pc' = "train"
           /\ result' = [call |-> "train", outcome |-> r.outcome]
           /\ env' = [self |-> r.self,
                      train_returned |-> env.train_returned \/ r.outcome = "returned",
                      calls |-> env.calls + 1]
           /\ UNCHANGED <<df, args, session_state>>

CallPredictProba ==
    \E bad_X \in BOOLEAN :
        /\ env.calls < MaxModelCalls
        /\ pc' = "predict_proba"
        /\ result' = [call |-> "predict_proba", outcome |-> predict_proba(env.self, bad_X)]
        /\ env' = [env EXCEPT !.calls = @ + 1]
        /\ UNCHANGED <<df, args, session_state>>

CallPredict ==
    \E bad_X \in BOOLEAN :
        /\ env.calls < MaxModelCalls
        /\ pc' = "predict"
        /\ result' = [call |-> "predict", outcome |-> predict(env.self, bad_X)]
        /\ env' = [env EXCEPT !.calls = @ + 1]
        /\ UNCHANGED <<df, args, session_state>>

NextModel == CallTrain \/ CallPredictProba \/ CallPredict

SpecModel == InitModel /\ [][NextModel]_vars

(***************************************************************************)
(* Claims about ScorecardModel, checked under SpecModel                    *)
(***************************************************************************)
\* C11: predict and predict_proba raise ValueError unless a train call has
\* returned normally on the instance before; is_trained is False at
\* construction, is True exactly when a train call has returned normally, and
\* so never returns to False.
C11_TrainedBeforePredict ==
    /\ pc = "constructed" => ~env.self.is_trained
    /\ env.self.is_trained <=> env.train_returned
    /\ (result.call \in {"predict", "predict_proba"} /\ ~env.train_returned)
          => result.outcome = "ValueError"

\* a prediction refused with ValueError after a train call that raised
C11_Witness ==
    /\ result.call \in {"predict", "predict_proba"}
    /\ result.outcome = "ValueError"
    /\ env.self.model = "partial"
    /\ ~env.self.is_trained

(***************************************************************************)
(* IV filtering and the forced keep list  (iv_woe_functions.py)            *)
(***************************************************************************)
\* An IV is held in thousandths.  df is the WoE-transformed dataset, of which
\* only the column names matter here; it always has the target column, which
\* the WoE step before needed.
iv_min == 15        \* 0.015
iv_max == 5000      \* 5.0

create_expanded_keep_list ==
    <<"bureau_score", "bureau_score_bucket", "bureau_score_bucket_50",
      "bureau_enquiries_1m", "bureau_enquiries_3m", "bureau_enquiries_6m",
      "bureau_enquiries_12m", "salary_credit_3m", "salary_credit_6m",
      "salary_credit_12m", "emi_to_income_ratio", "requested_amount",
      "minimum_balance", "dpd_max", "dpd_count_30_plus", "dpd_count_60_plus",
      "dpd_sum_total", "last_payment_gap", "num_loans_active", "num_loans_closed",
      "num_credit_cards_active", "utilization_score", "balance_utilization_score",
      "credit_card_utilization_pct", "amount_income_term_score",
      "behavior_bureau_interaction", "age", "employment_type", "education_level",
      "marital_status", "gender", "city_category", "customer_vintage_months",
      "avg_monthly_spend", "loan_to_income_ratio", "installment_to_balance_ratio",
      "cash_txn_ratio", "pos_txn_volume", "risk_score", "credit_limit_usage_ratio",
      "income_variability_score", "overdue_amount_ratio", "account_open_date",
      "monthly_income", "monthly_interest_rate", "emi_income_ratio", "emi_normalized",
      "recovery_success_flag", "request_term_ratio_flag">>

\* (a variant without the clause for the forced variables)
filter_variables_by_ivAlt(iv_summary, keep_list, lo, hi) ==
    [k \in 1..Len(iv_summary) |->
        [variable |-> iv_summary[k].variable,
         IV |-> iv_summary[k].IV,
         keep_flag |-> IF iv_summary[k].IV >= lo /\ iv_summary[k].IV <= hi
                       THEN 1 ELSE 0]]

\* filter_variables_by_iv: the left merge with the keep list marks the rows
\* whose variable is in it ('both'); keep_flag is 1 for these and for an IV
\* within [iv_min, iv_max]
filter_variables_by_iv(iv_summary, keep_list, lo, hi) ==
    [k \in 1..Len(iv_summary) |->
        [variable |-> iv_summary[k].variable,
         IV |-> iv_summary[k].IV,
         keep_flag |-> IF \/ iv_summary[k].variable \in Range(keep_list)
                          \/ (iv_summary[k].IV >= lo /\ iv_summary[k].IV <= hi)
                       THEN 1 ELSE 0]]

\* the order in which list(set(...)) yields names: hash_order is the order of
\* the string hashes of the interpreter, kept as one of two orders of the
\* names as they stand in names
SetOrder(S, names, hash_order) ==
    LET inOrder == SelectSeq(names, LAMBDA v : v \in S)
        n == Len(inOrder)
    IN IF hash_order = "forward" THEN inOrder
       ELSE [i \in 1..n |-> inOrder[n + 1 - i]]

\* select_final_variables (lines 571-579)
select_final_variables(iv_filtered, keep_list, available_variables, hash_order) ==
    LET kept == SelectSeq(iv_filtered, LAMBDA r : r.keep_flag = 1)
        vars_from_iv == [k \in 1..Len(kept) |-> kept[k].variable]
        combined_vars == SetOrder(Range(vars_from_iv) \cup Range(keep_list),
                                  available_variables \o keep_list, hash_order)
    IN SelectSeq(combined_vars, LAMBDA v : v \in Range(available_variables))

\* create_filtered_dataset (lines 601-607), as the columns of df[cols_to_keep]
create_filtered_dataset(columns, selected_vars, target_col) ==
    <<target_col>> \o SelectSeq(selected_vars, LAMBDA v : v \in Range(columns))

\* the columns a dataset may hold beside the target: three of the keep list
\* (employment_type is categorical and has no IV) and two others
KeepUniverse == <<"bureau_score", "age", "employment_type", "x1", "x2">>

KeepDatasets ==
    {<<"default_flag">> \o SelectSeq(KeepUniverse, LAMBDA v : v \in S) :
        S \in SUBSET Range(KeepUniverse)}

\* IV summaries of a dataset: a row for some of its numeric variables, with an
\* IV below iv_min, within the bounds or above iv_max
IvSummariesOf(columns) ==
    LET numeric == Range(columns) \ {"default_flag", "employment_type"}
    IN UNION {{LET vs == SelectSeq(columns, LAMBDA v : v \in S)
               IN [k \in 1..Len(vs) |-> [variable |-> vs[k], IV |-> iv[vs[k]]]] :
                  iv \in [S -> {0, 20, 6000}]} : S \in SUBSET numeric}

InitKeep ==
    /\ pc = "start"
    /\ df \in KeepDatasets
    /\ args \in [iv_summary : IvSummariesOf(df), target_col : {"default_flag"}]
    /\ result = [iv_filtered |-> None, selected_vars |-> None, df_filtered |-> None]
    /\ session_state = Unused
    /\ env \in [hash_order : {"forward", "backward"}]

CallFilterVariablesByIv ==
    /\ pc = "start"
    /\ pc' = "iv_filtered"
    /\ result' = [result EXCEPT !.iv_filtered =
                     filter_variables_by_iv(args.iv_summary, create_expanded_keep_list,
                                            iv_min, iv_max)]
    /\ UNCHANGED <<df, args, session_state, env>>

CallSelectFinalVariables ==
    /\ pc = "iv_filtered"
    /\ pc' = "selected"
    /\ result' = [result EXCEPT !.selected_vars =
                     select_final_variables(result.iv_filtered, create_expanded_keep_list,
                                            df, env.hash_order)]
    /\ UNCHANGED <<df, args, session_state, env>>

CallCreateFilteredDataset ==
    /\ pc = "selected"
    /\ pc' = "filtered"
    /\ result' = [result EXCEPT !.df_filtered =
                     create_filtered_dataset(df, result.selected_vars, args.target_col)]
    /\ UNCHANGED <<df, args, session_state, env>>

NextKeep == CallFilterVariablesByIv \/ CallSelectFinalVariables \/ CallCreateFilteredDataset

SpecKeep == InitKeep /\ [][NextKeep]_vars

(***************************************************************************)
(* Claims about the forced keep list, checked under SpecKeep               *)
(***************************************************************************)
ForcedInDataset == Range(create_expanded_keep_list) \cap Range(df)

\* C12: every variable of the expanded keep list that is a column of the
\* dataset gets keep_flag 1 in every row filter_variables_by_iv has for it,
\* is selected by select_final_variables and is a column of the filtered
\* dataset, as is the target column, whatever its IV.
C12_ForcedVariablesKept ==
    /\ pc \in {"iv_filtered", "selected", "filtered"} =>
          \A k \in 1..Len(result.iv_filtered) :
              result.iv_filtered[k].variable \in ForcedInDataset
                  => result.iv_filtered[k].keep_flag = 1
    /\ pc \in {"selected", "filtered"} =>
          ForcedInDataset \subseteq Range(result.selected_vars)
    /\ pc = "filtered" =>
          ForcedInDataset \cup {args.target_col} \subseteq Range(result.df_filtered)

\* a forced variable with an IV outside the bounds, and one without an IV,
\* in the filtered dataset from which another variable was left out
C12_Witness ==
    /\ pc = "filtered"
    /\ \E k \in 1..Len(result.iv_filtered) :
          /\ result.iv_filtered[k].variable \in ForcedInDataset
          /\ result.iv_filtered[k].IV < iv_min
          /\ result.iv_filtered[k].variable \in Range(result.df_filtered)
    /\ "employment_type" \in Range(result.df_filtered)
    /\ \E v \in Range(df) : v \notin Range(result.df_filtered)

(***************************************************************************)
(* apply_woe_transformations  (iv_woe_functions.py, lines 348-441)         *)
(***************************************************************************)
\* One numeric variable x of the dataframe, beside the target y.  The index
\* of the dataframe is the RangeIndex 0..N-1 it has when read from a file:
\* the row at position i (1-based here) has the label i - 1.  A cell of the
\* transformed column is NaN, a raw value <<v>> or a WoE <<a, b>>, the pair
\* of which the WoE is the logarithm of the quotient.
MaxApplyRows == 3

\* woe_all[woe_all['variable'] == var]: a table that was returned without
\* the columns woe and variable has no row for the variable
VarWoe(woe) == IF woe.has_pct THEN woe.stats ELSE <<>>

\* the woe column of bin_df.merge(var_woe[['bin', 'woe']], on='bin', how='left')
MergeWoe(bins, var_woe) ==
    [k \in 1..Len(bins) |->
        IF \E j \in 1..Len(var_woe) : var_woe[j].bin = bins[k]
        THEN (CHOOSE r \in Range(var_woe) : r.bin = bins[k]).woe
        ELSE NaN]

\* positions of the rows whose variable is not null (non_null_indices)
NonNullIndices(rows) == SetToSortedSeq({i \in 1..Len(rows) : rows[i].x # NaN})

\* the bins of the non-null values and, for automatic binning, the mask of
\* the valid ones (lines 399-423)
ValueBins(xs, is_manual, n_bins, bin_edges) ==
    IF is_manual
    THEN LET b0 == cut_manual(xs, bin_edges) IN [k \in 1..Len(xs) |-> b0[k] + 1]
    ELSE FillNaMinus1(qcut(xs, n_bins))

ValidBin(b, is_manual) == is_manual \/ b >= 0

\* the loop body for one variable.  merge returns a frame with a new
\* RangeIndex, so merged.index is 0..len(merged)-1 and .loc writes the WoE
\* values to the rows with these labels
apply_woe_transformations(rows, var_woe, is_manual, n_bins, bin_edges) ==
    LET non_null_indices == NonNullIndices(rows)
        xs == [k \in 1..Len(non_null_indices) |-> rows[non_null_indices[k]].x[1]]
        all_bins == ValueBins(xs, is_manual, n_bins, bin_edges)
        bins == SelectSeq(all_bins, LAMBDA b : ValidBin(b, is_manual))
        merged == MergeWoe(bins, var_woe)
    IN IF var_woe = <<>> \/ Len(non_null_indices) = 0 THEN rows
       ELSE [i \in 1..Len(rows) |->
                [x |-> IF i <= Len(merged) THEN merged[i] ELSE rows[i].x,
                 y |-> rows[i].y]]

ApplyFrames ==
    {[has_var |-> TRUE, has_target |-> TRUE, rows |-> r] :
        r \in UNION {[1..n -> {RowOfIdx(k) : k \in 0..(2 * (MaxVal + 2) - 1)}] :
                        n \in 1..MaxApplyRows}}

ApplyArgs ==
    {[fn |-> "qcut", n_bins |-> q] : q \in {2, DefaultNBins}}
    \cup {[fn |-> "manual", bin_edges |-> SetToSortedSeq(E)] : E \in SUBSET (1..MaxVal)}

InitApply ==
    /\ pc = "start"
    /\ df \in ApplyFrames
    /\ args \in ApplyArgs
    /\ result = [woe |-> None, rows |-> None]
    /\ session_state = Unused
    /\ env = Unused

\* calculate_woe_iv_with_manual_bureau_score for the variable
CallCalculateWoe ==
    /\ pc = "start"
    /\ pc' = "woe_calculated"
    /\ result' = [result EXCEPT !.woe =
                     IF args.fn = "manual"
                     THEN calculate_manual_binning_woe_iv(df, args.bin_edges)
                     ELSE step4_calculate_woe_iv_for_variable(df, args.n_bins)]
    /\ UNCHANGED <<df, args, session_state, env>>

CallApplyWoeTransformations ==
    /\ pc = "woe_calculated"
    /\ pc' = "transformed"
    /\ result' = [result EXCEPT !.rows =
                     apply_woe_transformations(
                         df.rows, VarWoe(result.woe), args.fn = "manual",
                         IF args.fn = "manual" THEN DefaultNBins ELSE args.n_bins,
                         IF args.fn = "manual" THEN args.bin_edges ELSE <<>>)]
    /\ UNCHANGED <<df, args, session_state, env>>

NextApply == CallCalculateWoe \/ CallApplyWoeTransformations

SpecApply == InitApply /\ [][NextApply]_vars

(***************************************************************************)
(* Claims about apply_woe_transformations, checked under SpecApply         *)
(***************************************************************************)
\* the WoE of the bin that the value of row i falls in
WoeOfRow(i) ==
    LET is_manual == args.fn = "manual"
        non_null_indices == NonNullIndices(df.rows)
        xs == [k \in 1..Len(non_null_indices) |-> df.rows[non_null_indices[k]].x[1]]
        all_bins == ValueBins(xs, is_manual,
                              IF is_manual THEN DefaultNBins ELSE args.n_bins,
                              IF is_manual THEN args.bin_edges ELSE <<>>)
        k == CHOOSE j \in 1..Len(non_null_indices) : non_null_indices[j] = i
    IN IF ValidBin(all_bins[k], is_manual)
       THEN MergeWoe(<<all_bins[k]>>, VarWoe(result.woe))[1]
       ELSE df.rows[i].x

MaxTrainRows == 4
MaxScoreRows == 2
MaxScoreVal == 2

\* Series.median() of the non-null cells, times two; None without such a cell
MedianTwice(col) ==
    LET xs == SelectSeq(col, LAMBDA c : c # NaN)
        n == Len(xs)
        vals == [i \in 1..n |-> xs[i][1]]
    IN IF n = 0 THEN None
       ELSE IF n % 2 = 1 THEN Val(2 * Kth(vals, n \div 2))
       ELSE Val(Kth(vals, n \div 2 - 1) + Kth(vals, n \div 2))

\* clean_data without imputation_dict, for a numeric column (lines 45-55)
clean_data(col) ==
    LET median_val == MedianTwice(col)
    IN [i \in 1..Len(col) |->
           IF col[i] # NaN THEN 2 * col[i][1]
           ELSE IF median_val # None THEN median_val[1] ELSE 0]

\* calculate_woe_iv (lines 65-122): the WOE table, one row per bin present,
\* or None.  The two columns of the frequency table are renamed by position,
\* so without a bad row every bin gets bad = 1, and without a good row the
\* counts of the bad rows stand in the column good and total_bad is 0.
calculate_woe_iv(xs, ys, n_bins) ==
    LET binned == qcut(xs, n_bins)
        present == SetToSortedSeq({binned[i][1] : i \in {j \in 1..Len(xs) : binned[j] # NaN}})
        count(b, t) == Cardinality({i \in 1..Len(xs) : binned[i] = Val(b) /\ ys[i] = t})
        has0 == \E i \in 1..Len(xs) : binned[i] # NaN /\ ys[i] = 0
        has1 == \E i \in 1..Len(xs) : binned[i] # NaN /\ ys[i] = 1
        good(b) == IF has0 THEN count(b, 0) ELSE count(b, 1)
        bad(b) == IF has0 /\ has1 THEN count(b, 1) ELSE IF has0 THEN 1 ELSE 0
        total_good == SumSeq([k \in 1..Len(present) |-> good(present[k])])
        total_bad == SumSeq([k \in 1..Len(present) |-> bad(present[k])])
    IN IF total_good = 0 \/ total_bad = 0 THEN None
       ELSE [k \in 1..Len(present) |->
                [bin |-> present[k], good |-> good(present[k]), bad |-> bad(present[k]),
                 woe |-> <<(2 * good(present[k]) + 1) * (total_bad + 3),
                           (2 * bad(present[k]) + 1) * (total_good + 3)>>]]

\* apply_woe_transformation (lines 156-199) for the variable: the column
\* {var}_woe.  The dataframe handed in is binned anew with pd.qcut into as
\* many bins as the WOE table has rows, and the left merge on the bin
\* number attaches the WOE (NaN for a bin without a row, or a null bin).
apply_woe_transformation(xs, woe_table) ==
    IF woe_table = None THEN None
    ELSE MergeWoe(FillNaMinus1(qcut(xs, Len(woe_table))), woe_table)

\* prepare_scoring_data (lines 334-359)
prepare_scoring_data(col, woe_table) ==
    apply_woe_transformation(clean_data(col), woe_table)

TrainFrames ==
    {[i \in 1..Len(s) |-> [x |-> Val(s[i] \div 2), y |-> s[i] % 2]] :
        s \in SortedIdx(MaxTrainRows, 0, 2 * MaxScoreVal + 1)}

NewApplicants ==
    UNION {[1..n -> {NaN} \cup {Val(v) : v \in 0..MaxScoreVal}] : n \in 1..MaxScoreRows}

TrainColumn(rows) == [i \in 1..Len(rows) |-> rows[i].x]

InitScoring ==
    /\ pc = "start"
    /\ df \in TrainFrames
    /\ args \in [new_applicant_data : NewApplicants, n_bins : {2, 6}]
    /\ result = [woe_mappings |-> None, df_woe |-> None, df_woe_new |-> None]
    /\ session_state = Unused
    /\ env = Unused

\* prepare_training_data (lines 202-237)
CallPrepareTrainingData ==
    /\ pc = "start"
    /\ pc' = "trained"
    /\ LET cleaned_df == clean_data(TrainColumn(df))
           woe_table == calculate_woe_iv(cleaned_df, [i \in 1..Len(df) |-> df[i].y],
                                         args.n_bins)
       IN result' = [result EXCEPT !.woe_mappings = woe_table,
                                   !.df_woe = apply_woe_transformation(cleaned_df, woe_table)]
    /\ UNCHANGED <<df, args, session_state, env>>

CallPrepareScoringData ==
    /\ pc = "trained"
    /\ pc' = "scored"
    /\ result' = [result EXCEPT !.df_woe_new =
                     prepare_scoring_data(args.new_applicant_data, result.woe_mappings)]
    /\ UNCHANGED <<df, args, session_state, env>>

NextScoring == CallPrepareTrainingData \/ CallPrepareScoringData

SpecScoring == InitScoring /\ [][NextScoring]_vars

(***************************************************************************)
(* Claims about scoring, checked under SpecScoring                         *)
(***************************************************************************)
\* two WOE cells hold the same number
SameWoe(a, b) ==
    IF a = NaN \/ b = NaN THEN a = b ELSE a[1] * b[2] = a[2] * b[1]

\* C14: a raw value of the binned variable receives the same WoE in the
\* new-applicant dataset as in the training data: the WoE of a scored row
\* depends on its own value and the training mapping only.
C14_ScoringUsesTrainingWoe ==
    (pc = "scored" /\ result.woe_mappings # None) =>
        \A i \in 1..Len(df) : \A j \in 1..Len(args.new_applicant_data) :
            df[i].x = args.new_applicant_data[j]
                => SameWoe(result.df_woe[i], result.df_woe_new[j])

(***************************************************************************)
(* run_full_collinearity_analysis  (collinear_functions.py, lines 253-364) *)
(***************************************************************************)
MaxFeatures == 2    \* feature columns beside the target

create_final_keep_list ==
    <<"account_open_date", "account_tenure_months", "age",
      "amount_income_term_score", "annual_interest_rate",
      "application_date", "avg_combined_score",
      "balance_utilization_score", "behavior_score_gap", "bureau_score",
      "credit_card_utilization_pct", "default_flag", "dpd_count_30_plus",
      "dpd_max", "dpd_recent_flag", "emi_to_income_ratio", "employment_type",
      "loan_size_score", "overdue_normalized", "pos_transaction_volume",
      "recovery_success_flag", "risk_score", "tenure_months">>

\* apply_final_keep_list_filter (lines 274-301): df[available_vars]
apply_final_keep_list_filter(d, keep_list) ==
    LET in_keep == SelectSeq(keep_list, LAMBDA v : v \in Range(d.columns))
        available_vars ==
            IF "default_flag" \in Range(d.columns) /\ "default_flag" \notin Range(in_keep)
            THEN Append(in_keep, "default_flag") ELSE in_keep
    IN [columns |-> available_vars, data |-> [c \in Range(available_vars) |-> d.data[c]]]

run_full_collinearity_analysis(d, iv_summary, target_col) ==
    LET correlation == CorrelationFilter(d, iv_summary)
        df_corr_filtered == correlation.filtered_df
        vif_df == calculate_vif(df_corr_filtered, target_col).vif_df
        vars_to_drop_vif == identify_vars_to_drop_vif(vif_df, vif_threshold, DefaultKeyVars)
        df_vif_filtered == apply_vif_filter(df_corr_filtered, vars_to_drop_vif)
        keep_list == create_final_keep_list
    IN [correlation |-> correlation,
        vif |-> [vif_df |-> vif_df, vars_dropped |-> vars_to_drop_vif,
                 filtered_df |-> df_vif_filtered],
        final_df |-> apply_final_keep_list_filter(df_vif_filtered, keep_list)]

\* the binary target, and the data of a feature: that of ColumnData or a
\* column that follows the target
TargetData == <<0, 1, 0, 1>>
FullColumnData == ColumnData \cup {<<0, 1, 0, 1>>, <<1, 0, 1, 0>>}

\* dataframes of 1..n numeric feature columns, the i-th named c<i> or by a
\* name of the keep list, with the target default_flag after p of them or
\* without it
FullFrames(n) ==
    UNION {{LET names == [i \in 1..k |-> IF i \in keyed THEN KeyName(i) ELSE ColName(i)]
                cols == IF p > k THEN names
                        ELSE SubSeq(names, 1, p) \o <<"default_flag">> \o SubSeq(names, p + 1, k)
            IN [columns |-> cols,
                data |-> [c \in Range(cols) |->
                             IF c = "default_flag" THEN TargetData
                             ELSE f[CHOOSE i \in 1..k : names[i] = c]]] :
               f \in [1..k -> FullColumnData], keyed \in SUBSET (1..k), p \in 0..(k + 1)} :
           k \in 1..n}

\* IV summaries of the features of d
FeatureIvSummaries(d) ==
    UNION {[S -> {1, 5}] : S \in SUBSET (Range(d.columns) \ {"default_flag"})}

InitFull ==
    /\ pc = "start"
    /\ df \in FullFrames(MaxFeatures)
    /\ args \in {[iv_summary |-> iv, target_col |-> "default_flag"] :
                    iv \in FeatureIvSummaries(df)}
    /\ result = None
    /\ session_state = Unused
    /\ env = Unused

CallRunFullCollinearityAnalysis ==
    /\ pc = "start"
    /\ pc' = "done"
    /\ result' = run_full_collinearity_analysis(df, args.iv_summary, args.target_col)
    /\ UNCHANGED <<df, args, session_state, env>>

NextFull == CallRunFullCollinearityAnalysis

SpecFull == InitFull /\ [][NextFull]_vars

(***************************************************************************)
(* Claims about the full analysis, checked under SpecFull                  *)
(***************************************************************************)
\* C18: when the input dataframe of run_full_collinearity_analysis has the
\* target column default_flag, so has the final dataframe it returns.
C18_TargetSurvives ==
    (pc = "done" /\ "default_flag" \in Range(df.columns)) =>
        "default_flag" \in Range(result.final_df.columns)

(***************************************************************************)
(* step7_duplicate_columns on small dataframes  (var_meta_functions.py)    *)
(***************************************************************************)
MaxHashRows == 2
MaxHashCols == 3

\* a cell is null or holds the integer 1 or 11
HashCells == {NaN, Val(1), Val(11)}

HashColName(i, with_dpd) ==
    IF with_dpd /\ i = 2 THEN "dpd_m1" ELSE <<"a", "b", "c", "d">>[i]

\* dataframes of MaxHashRows rows and 2..n columns a, b, ..., the second one
\* named dpd_m1 instead when with_dpd
HashFrames(n) ==
    UNION {{[columns |-> [i \in 1..k |-> HashColName(i, with_dpd)],
             data |-> [c \in {HashColName(i, with_dpd) : i \in 1..k} |->
                          f[CHOOSE i \in 1..k : HashColName(i, with_dpd) = c]]] :
               f \in [1..k -> [1..MaxHashRows -> HashCells]], with_dpd \in BOOLEAN} :
           k \in 2..n}

InitHash ==
    /\ pc = "start"
    /\ df \in HashFrames(MaxHashCols)
    /\ args \in [sample_size : {DefaultSampleSize, MaxHashRows - 1}]
    /\ result = None
    /\ session_state = Unused
    /\ env \in [rng : {np_random_seed(s) : s \in {0, 1}},
                tie_order : {"stable", "reversed"}]

\* the rows df_sample holds (line 145)
SampledRows(d, sample_size, rng) ==
    IF sample_size # 0 /\ NRows(d) > sample_size
    THEN SampleRows(NRows(d), Min2(sample_size, NRows(d)), rng)
    ELSE [i \in 1..NRows(d) |-> i]

CallStep7DuplicateColumns ==
    /\ pc = "start"
    /\ pc' = "done"
    /\ LET r == step7_duplicate_columns(df, args.sample_size, env.rng, env.tie_order)
       IN /\ result' = [table |-> r.table,
                        sampled_rows |-> SampledRows(df, args.sample_size, env.rng)]
          /\ env' = [env EXCEPT !.rng = r.rng]
    /\ UNCHANGED <<df, args, session_state>>

NextHash == CallStep7DuplicateColumns

SpecHash == InitHash /\ [][NextHash]_vars

(***************************************************************************)
(* Claims about duplicate detection, checked under SpecHash                *)
(***************************************************************************)
SameGroup(a, b) ==
    \E p, q \in 1..Len(result.table) :
        /\ result.table[p].column_name = a
        /\ result.table[q].column_name = b
        /\ result.table[p].group_id = result.table[q].group_id

IdenticalOnSample(a, b) ==
    \A i \in 1..Len(result.sampled_rows) :
        df.data[a][result.sampled_rows[i]] = df.data[b][result.sampled_rows[i]]

\* C19: step7_duplicate_columns places two checked columns (not dpd_m1 ..
\* dpd_m12) in the same duplicate group if and only if they hold identical
\* values in every sampled row.
C19_GroupedIffIdentical ==
    pc = "done" =>
        \A a, b \in Range(df.columns) \ exclude_columns :
            a # b => (SameGroup(a, b) <=> IdenticalOnSample(a, b))

====
